---- MODULE Spec2Model ----
(***************************************************************************)
(* Model of the write-behind Redis cache database                          *)
(* (nautilus_core/infrastructure/src/redis/cache.rs): the facade           *)
(* RedisCacheDatabase, its command channel, the `cache` worker thread      *)
(* (handle_messages / drain_buffer) and the key-space router.              *)
(*                                                                         *)
(* Strings are sequences of tokens; the delimiter ':' is a token of its    *)
(* own, so split_once, format! and the trader key are computed, not        *)
(* assumed.  Byte strings are token sequences too (<<>> is b"").           *)
(***************************************************************************)
EXTENDS Integers, Sequences, FiniteSets, TLC

\* ------------------------------------------------------------------ bounds
MaxCalls == 3
MaxInterval == 1
MaxKeyLen == 4
MaxResolve == 2
MaxSymLen == 3     \* tokens in a symbol
MaxStep == 12      \* largest bar step
MaxStream == 4     \* bytes the peer sends on a socket
MaxSends == 1      \* send_bytes calls on a socket

\* --------------------------------------------------------------- constants
DELIMITER == ":"

INDEX == <<"index">>
GENERAL == <<"general">>
CURRENCIES == <<"currencies">>
INSTRUMENTS == <<"instruments">>
SYNTHETICS == <<"synthetics">>
ACCOUNTS == <<"accounts">>
ORDERS == <<"orders">>
POSITIONS == <<"positions">>
ACTORS == <<"actors">>
STRATEGIES == <<"strategies">>
SNAPSHOTS == <<"snapshots">>
HEALTH == <<"health">>

INDEX_ORDER_IDS == <<"index", ":", "order_ids">>
INDEX_ORDER_POSITION == <<"index", ":", "order_position">>
INDEX_ORDER_CLIENT == <<"index", ":", "order_client">>
INDEX_ORDERS == <<"index", ":", "orders">>
INDEX_ORDERS_OPEN == <<"index", ":", "orders_open">>
INDEX_ORDERS_CLOSED == <<"index", ":", "orders_closed">>
INDEX_ORDERS_EMULATED == <<"index", ":", "orders_emulated">>
INDEX_ORDERS_INFLIGHT == <<"index", ":", "orders_inflight">>
INDEX_POSITIONS == <<"index", ":", "positions">>
INDEX_POSITIONS_OPEN == <<"index", ":", "positions_open">>
INDEX_POSITIONS_CLOSED == <<"index", ":", "positions_closed">>

\* ------------------------------------------------------------------ state
VARIABLES
    config,       \* the config map given to new(): the three recognised options
    trader_key,   \* RedisCacheDatabase.trader_key (and the worker's copy of it)
    chan,         \* messages in flight in the mpsc channel (tx -> rx), FIFO
    rx_alive,     \* the Receiver has not been dropped
    tx_alive,     \* the facade (and its Sender) has not been dropped
    handle,       \* RedisCacheDatabase.handle is Some
    fpc,          \* the facade's position: "idle", or "joining" inside close()
    wstate,       \* the worker: "Running", "Final", "Closed", "Panicked"
    buffer,       \* handle_messages' buffer: VecDeque<DatabaseCommand>
    elapsed,      \* last_drain.elapsed(), saturating at the buffer interval
    store,        \* the Redis database: physical key -> value
    calls,        \* history: every insert/update/delete call with its result
    closes,       \* history: every close() call with its result
    drains,       \* history: every drain_buffer run
    recvd,        \* history: every command the worker buffered
    sinceRecv,    \* history: time since the last receive, saturating likewise
    probe_key,    \* the key a caller hands to the key-resolution functions
    probe_res,    \* history: what the key-resolution calls on probe_key returned
    fg,           \* history: every new/read/flushdb call with its result
    foreign,      \* history: the physical keys another facade wrote to the store
    bar_type,     \* a BarType value
    bar_text,     \* its Display string, once formatted
    bar_parsed,   \* what BarType::from_str made of bar_text, once parsed
    suffix,       \* SocketClient.suffix: the frame terminator
    inner,        \* who holds SocketClient.inner, the Mutex around the stream
    shut,         \* the write half of the stream has been shut down
    read_task,    \* the read task: where it is, or how it finished
    aborted,      \* read_task.abort() has been called
    sbuf,         \* the read task's `buf`
    wire,         \* bytes the peer has sent that no read has taken yet
    peer_closed,  \* the peer has closed its side of the connection
    cpc,          \* the socket's owner: "idle" or inside one of its calls
    written,      \* history: the bytes written to the stream
    read_hist,    \* history: the bytes the reads returned, in order
    handler_calls \* history: the argument of every handler call, in order

vars == <<config, trader_key, chan, rx_alive, tx_alive, handle, fpc, wstate,
          buffer, elapsed, store, calls, closes, drains, recvd, sinceRecv,
          probe_key, probe_res, fg, foreign, bar_type, bar_text, bar_parsed,
          suffix, inner, shut, read_task, aborted, sbuf, wire, peer_closed,
          cpc, written, read_hist, handler_calls>>

\* the variables of the key-resolution calls, untouched by facade and worker
probe == <<probe_key, probe_res>>

\* the variables of the BarType conversions, untouched by the cache database
bar == <<bar_type, bar_text, bar_parsed>>

\* the variables only the foreground calls and the other facade change
aside == <<fg, foreign>>

\* the variables of the socket client, untouched by everything else
sock == <<suffix, inner, shut, read_task, aborted, sbuf, wire, peer_closed,
          cpc, written, read_hist, handler_calls>>

\* everything but the socket client: its steps touch none of it
others == <<probe, bar, aside, config, trader_key, chan, rx_alive, tx_alive,
            handle, fpc, wstate, buffer, elapsed, store, calls, closes,
            drains, recvd, sinceRecv>>

\* ---------------------------------------------------------------- helpers
Min(a, b) == IF a < b THEN a ELSE b

Last(s) == s[Len(s)]

\* anyhow::Result<T>: Ok(val) or Err(err)
Ok(v) == [ok |-> TRUE, val |-> v, err |-> "none"]
Err(e) == [ok |-> FALSE, val |-> <<>>, err |-> e]

\* Option<Vec<Vec<u8>>>
None == [some |-> FALSE, segs |-> <<>>]
Some(segs) == [some |-> TRUE, segs |-> segs]

\* str::split_once(DELIMITER): the position of the first delimiter, 0 if none
DelimPos(key) ==
    IF \E i \in 1..Len(key) : key[i] = DELIMITER
    THEN CHOOSE i \in 1..Len(key) :
            key[i] = DELIMITER /\ \A j \in 1..(i - 1) : key[j] # DELIMITER
    ELSE 0

get_collection_key(key) ==
    IF DelimPos(key) = 0
    THEN Err("KeyFormatError")
    ELSE Ok(SubSeq(key, 1, DelimPos(key) - 1))

\* (mutant) the key is split at its last delimiter (rsplit_once)
get_index_key_rsplit(key) ==
    IF DelimPos(key) = 0
    THEN Err("KeyFormatError")
    ELSE LET last == CHOOSE i \in 1..Len(key) :
                        key[i] = DELIMITER /\ \A j \in (i + 1)..Len(key) : key[j] # DELIMITER
         IN  Ok(SubSeq(key, last + 1, Len(key)))

get_index_key(key) ==
    IF DelimPos(key) = 0
    THEN Err("KeyFormatError")
    ELSE Ok(SubSeq(key, DelimPos(key) + 1, Len(key)))

\* format!("{trader_key}{DELIMITER}{key}")
PhysicalKey(tk, key) == tk \o <<DELIMITER>> \o key

\* (mutant) any value but false counts as set (a truthiness test)
get_trader_key_truthy(trader_id, instance_id, cfg) ==
    (IF cfg.use_trader_prefix \in {"true", "text"} THEN <<"trader-">> ELSE <<>>)
    \o trader_id
    \o (IF cfg.use_instance_id \in {"true", "text"}
        THEN <<DELIMITER>> \o instance_id ELSE <<>>)

\* a flag is "true", "false", "absent", or "text" (present, not a boolean)
get_trader_key(trader_id, instance_id, cfg) ==
    (IF cfg.use_trader_prefix = "true" THEN <<"trader-">> ELSE <<>>)
    \o trader_id
    \o (IF cfg.use_instance_id = "true" THEN <<DELIMITER>> \o instance_id ELSE <<>>)

\* ------------------------------------------------- pipeline construction
\* What one handler contributes to the pipeline: Ok(()) with the commands it
\* appended, Err(e) (logged by drain_buffer), or a panic (index out of bounds).
R_ok(ops) == [st |-> "ok", ops |-> ops, err |-> "none"]
R_err(e) == [st |-> "err", ops |-> <<>>, err |-> e]
R_panic == [st |-> "panic", ops |-> <<>>, err |-> "index out of bounds"]

RedisCmd(c, key, a, b) == [cmd |-> c, key |-> key, a |-> a, b |-> b]

insert_string(key, value) == RedisCmd("SET", key, value, <<>>)
insert_set(key, value) == RedisCmd("SADD", key, value, <<>>)
insert_hset(key, name, value) == RedisCmd("HSET", key, name, value)
insert_list(key, value) == RedisCmd("RPUSH", key, value, <<>>)
update_list(key, value) == RedisCmd("RPUSHX", key, value, <<>>)
remove_from_set(key, member) == RedisCmd("SREM", key, member, <<>>)
delete_string(key) == RedisCmd("DEL", key, <<>>, <<>>)

\* the index names handled as membership sets / as mapping hashes
SetIndexKeys ==
    {INDEX_ORDER_IDS, INDEX_ORDERS, INDEX_ORDERS_OPEN, INDEX_ORDERS_CLOSED,
     INDEX_ORDERS_EMULATED, INDEX_ORDERS_INFLIGHT, INDEX_POSITIONS,
     INDEX_POSITIONS_OPEN, INDEX_POSITIONS_CLOSED}
HashIndexKeys == {INDEX_ORDER_POSITION, INDEX_ORDER_CLIENT}
\* (mutant) every membership set has a removal arm
RemovableIndexKeysAll == SetIndexKeys

RemovableIndexKeys ==
    {INDEX_ORDERS_OPEN, INDEX_ORDERS_CLOSED, INDEX_ORDERS_EMULATED,
     INDEX_ORDERS_INFLIGHT, INDEX_POSITIONS_OPEN, INDEX_POSITIONS_CLOSED}

\* the collections insert() stores as a string / as a list
StringCollections ==
    {GENERAL, CURRENCIES, INSTRUMENTS, SYNTHETICS, ACTORS, STRATEGIES, HEALTH}
ListCollections == {ACCOUNTS, ORDERS, POSITIONS, SNAPSHOTS}
UpdateCollections == {ACCOUNTS, ORDERS, POSITIONS}
DeleteCollections == {ACTORS, STRATEGIES}

\* check_slice_not_empty(value)
check_slice_not_empty(value) == Len(value) > 0

\* `key` is the physical key drain_buffer built; value[i] of the code is
\* value[i + 1] here, and an index past the end panics.
insert_index(key, value) ==
    LET index_key == get_index_key(key) IN
    IF ~index_key.ok THEN R_err(index_key.err)
    ELSE IF index_key.val \in HashIndexKeys
    THEN IF Len(value) < 2 THEN R_panic
         ELSE R_ok(<<insert_hset(key, value[1], value[2])>>)
    ELSE IF index_key.val \in SetIndexKeys
    THEN IF Len(value) < 1 THEN R_panic
         ELSE R_ok(<<insert_set(key, value[1])>>)
    ELSE R_err("IndexUnknown")

insert(collection, key, value) ==
    IF ~check_slice_not_empty(value) THEN R_err("PayloadError")
    ELSE IF collection = INDEX THEN insert_index(key, value)
    ELSE IF collection \in StringCollections
    THEN R_ok(<<insert_string(key, value[1])>>)
    ELSE IF collection \in ListCollections
    THEN R_ok(<<insert_list(key, value[1])>>)
    ELSE R_err("UnsupportedOperation")

update(collection, key, value) ==
    IF ~check_slice_not_empty(value) THEN R_err("PayloadError")
    ELSE IF collection \in UpdateCollections
    THEN R_ok(<<update_list(key, value[1])>>)
    ELSE R_err("UnsupportedOperation")

\* `value` is the Option: None, or Some(segments)
remove_index(key, value) ==
    LET index_key == get_index_key(key) IN
    IF ~value.some THEN R_err("PayloadError")
    ELSE IF ~index_key.ok THEN R_err(index_key.err)
    ELSE IF index_key.val \in RemovableIndexKeys
    THEN IF Len(value.segs) < 1 THEN R_panic
         ELSE R_ok(<<remove_from_set(key, value.segs[1])>>)
    ELSE R_err("UnsupportedIndexOperation")

\* (mutant) delete removes the key of any collection but the index
delete_any(collection, key, value) ==
    IF collection = INDEX THEN remove_index(key, value)
    ELSE R_ok(<<delete_string(key)>>)

delete(collection, key, value) ==
    IF collection = INDEX THEN remove_index(key, value)
    ELSE IF collection \in DeleteCollections
    THEN R_ok(<<delete_string(key)>>)
    ELSE R_err("UnsupportedOperation")

\* The body of drain_buffer's loop for one message.
DrainOne(tk, msg) ==
    LET collection == get_collection_key(msg.key.s)
        key == PhysicalKey(tk, msg.key.s)
    IN  IF ~msg.key.some THEN R_panic
        ELSE IF ~collection.ok THEN R_err(collection.err)
        ELSE IF msg.op_type = "Insert"
        THEN IF ~msg.payload.some THEN R_err("PayloadError")
             ELSE insert(collection.val, key, msg.payload.segs)
        ELSE IF msg.op_type = "Update"
        THEN IF ~msg.payload.some THEN R_err("PayloadError")
             ELSE update(collection.val, key, msg.payload.segs)
        ELSE IF msg.op_type = "Delete"
        THEN delete(collection.val, key, msg.payload)
        ELSE R_panic

\* drain_buffer's loop over buffer.drain(..): the pipeline built, the ids of
\* the messages that put a command in it, and whether a message panicked.
RECURSIVE DrainLoop(_, _, _)
DrainLoop(tk, buf, acc) ==
    IF buf = <<>> THEN acc
    ELSE LET r == DrainOne(tk, Head(buf)) IN
         IF r.st = "panic" THEN [acc EXCEPT !.panic = TRUE]
         ELSE DrainLoop(tk, Tail(buf),
                 [acc EXCEPT !.pipe = @ \o r.ops,
                             !.ids = IF r.st = "ok" THEN Append(@, Head(buf).id) ELSE @,
                             !.skipped = IF r.st = "err" THEN Append(@, Head(buf).id) ELSE @])

BuildPipeline(tk, buf) ==
    DrainLoop(tk, buf, [pipe |-> <<>>, ids |-> <<>>, skipped |-> <<>>, panic |-> FALSE])

\* ------------------------------------------------------------- the store
\* A Redis value; every value carries all fields so that values compare.
StrVal(b) == [t |-> "string", s |-> b, l |-> <<>>, m |-> {}, h |-> {}]
ListVal(l) == [t |-> "list", s |-> <<>>, l |-> l, m |-> {}, h |-> {}]
SetVal(m) == [t |-> "set", s |-> <<>>, l |-> <<>>, m |-> m, h |-> {}]
HashVal(h) == [t |-> "hash", s |-> <<>>, l |-> <<>>, m |-> {}, h |-> h]

EmptyStore == [k \in {} |-> StrVal(<<>>)]
Put(st, k, v) == [x \in (DOMAIN st) \cup {k} |-> IF x = k THEN v ELSE st[x]]
Del(st, k) == [x \in (DOMAIN st) \ {k} |-> st[x]]
Has(st, k) == k \in DOMAIN st

\* One Redis command applied by the server (a command on a key of another
\* type answers WRONGTYPE and changes nothing).
Apply(st, c) ==
    CASE c.cmd = "SET" -> Put(st, c.key, StrVal(c.a))
      [] c.cmd = "DEL" -> Del(st, c.key)
      [] c.cmd = "RPUSH" ->
            IF ~Has(st, c.key) THEN Put(st, c.key, ListVal(<<c.a>>))
            ELSE IF st[c.key].t = "list"
            THEN Put(st, c.key, ListVal(Append(st[c.key].l, c.a)))
            ELSE st
      [] c.cmd = "RPUSHX" ->
            IF Has(st, c.key) /\ st[c.key].t = "list"
            THEN Put(st, c.key, ListVal(Append(st[c.key].l, c.a)))
            ELSE st
      [] c.cmd = "SADD" ->
            IF ~Has(st, c.key) THEN Put(st, c.key, SetVal({c.a}))
            ELSE IF st[c.key].t = "set"
            THEN Put(st, c.key, SetVal(st[c.key].m \cup {c.a}))
            ELSE st
      [] c.cmd = "SREM" ->
            IF Has(st, c.key) /\ st[c.key].t = "set"
            THEN IF st[c.key].m \ {c.a} = {} THEN Del(st, c.key)
                 ELSE Put(st, c.key, SetVal(st[c.key].m \ {c.a}))
            ELSE st
      [] c.cmd = "HSET" ->
            IF ~Has(st, c.key) THEN Put(st, c.key, HashVal({<<c.a, c.b>>}))
            ELSE IF st[c.key].t = "hash"
            THEN Put(st, c.key,
                     HashVal({p \in st[c.key].h : p[1] # c.a} \cup {<<c.a, c.b>>}))
            ELSE st
      [] OTHER -> st

RECURSIVE ApplyAll(_, _)
ApplyAll(st, pipe) ==
    IF pipe = <<>> THEN st ELSE ApplyAll(Apply(st, Head(pipe)), Tail(pipe))

\* (mutant) the pipeline is sent without MULTI/EXEC
PipeNotAtomic == FALSE

\* pipe.atomic(): the pipeline is sent as one MULTI/EXEC transaction
PipeAtomic == TRUE

\* pipe.query(conn).  fail = -1: the store executes the batch; fail = k >= 0:
\* the execution fails when k commands have gone through.  A transaction
\* that fails applies nothing; a plain pipeline keeps what was applied.
Query(st, pipe, fail) ==
    IF fail = -1 THEN ApplyAll(st, pipe)
    ELSE IF PipeAtomic THEN st
    ELSE ApplyAll(st, SubSeq(pipe, 1, fail))

\* the ways the execution of a pipeline can end
QueryOutcomes(pipe) == {-1} \cup (0..(Len(pipe) - 1))

\* -------------------------------------------------------------- read path
\* every order a set's members can be returned in
Orderings(S) ==
    {f \in [1..Cardinality(S) -> S] : \A i, j \in 1..Cardinality(S) : f[i] = f[j] => i = j}

RECURSIVE Flatten(_)
Flatten(ss) == IF ss = <<>> THEN <<>> ELSE Head(ss) \o Flatten(Tail(ss))

\* serde_json::to_string of the field -> value map, entries in the order `ps`
JsonObject(ps) ==
    <<"{">>
    \o Flatten([i \in 1..Len(ps) |->
          (IF i > 1 THEN <<",">> ELSE <<>>)
          \o <<"\"">> \o ps[i][1] \o <<"\"", ":", "\"">> \o ps[i][2] \o <<"\"">>])
    \o <<"}">>

\* the foreground connection: the database it talks to, and whether the
\* server answers its queries
Connection(up, db) == [up |-> up, db |-> db]
Connected(db) == Connection(TRUE, db)

\* conn.get(key)?: the value, empty when the key is absent
read_string(conn, key) ==
    LET result == IF Has(conn.db, key) /\ conn.db[key].t = "string"
                  THEN conn.db[key].s ELSE <<>>
    IN  IF ~conn.up THEN {Err("StoreError")}
        ELSE {IF result = <<>> THEN Ok(<<>>) ELSE Ok(<<result>>)}

\* conn.smembers(key)?: the members, in any order
read_set(conn, key) ==
    LET members == IF Has(conn.db, key) /\ conn.db[key].t = "set"
                   THEN conn.db[key].m ELSE {}
    IN  IF ~conn.up THEN {Err("StoreError")}
        ELSE {Ok(f) : f \in Orderings(members)}

\* conn.hgetall(key)?, serialized as one JSON object
read_hset(conn, key) ==
    LET pairs == IF Has(conn.db, key) /\ conn.db[key].t = "hash"
                 THEN conn.db[key].h ELSE {}
    IN  IF ~conn.up THEN {Err("StoreError")}
        ELSE {Ok(<<JsonObject(f)>>) : f \in Orderings(pairs)}

\* conn.lrange(key, 0, -1)?
read_list(conn, key) ==
    IF ~conn.up THEN {Err("StoreError")}
    ELSE {Ok(IF Has(conn.db, key) /\ conn.db[key].t = "list"
             THEN conn.db[key].l ELSE <<>>)}

read_index(conn, key) ==
    LET index_key == get_index_key(key) IN
    IF ~index_key.ok THEN {Err(index_key.err)}
    ELSE IF index_key.val \in HashIndexKeys THEN read_hset(conn, key)
    ELSE IF index_key.val \in SetIndexKeys THEN read_set(conn, key)
    ELSE {Err("IndexUnknown")}

\* (mutant) read also serves the health collection
ReadStringCollectionsAndHealth ==
    {GENERAL, CURRENCIES, INSTRUMENTS, SYNTHETICS, ACTORS, STRATEGIES, HEALTH}
ReadStringCollections ==
    {GENERAL, CURRENCIES, INSTRUMENTS, SYNTHETICS, ACTORS, STRATEGIES}
ReadListCollections == {ACCOUNTS, ORDERS, POSITIONS}

\* "Unsupported operation: `read` for collection '{collection}'": the error,
\* with the operation and the collection its message names
UnsupportedRead(collection) ==
    [ok |-> FALSE, val |-> <<<<"read">>, collection>>, err |-> "UnsupportedOperation"]

\* RedisCacheDatabase::read on the foreground connection: the results the
\* call can return in the current state
read(tk, conn, key) ==
    LET collection == get_collection_key(key)
        pkey == PhysicalKey(tk, key)
    IN  IF ~collection.ok THEN {Err(collection.err)}
        ELSE IF collection.val = INDEX THEN read_index(conn, pkey)
        ELSE IF collection.val \in ReadStringCollections THEN read_string(conn, pkey)
        ELSE IF collection.val \in ReadListCollections THEN read_list(conn, pkey)
        ELSE {UnsupportedRead(collection.val)}

\* Redis glob matching, on tokens: `*` matches any run of tokens
RECURSIVE GlobMatch(_, _)
GlobMatch(pat, str) ==
    IF pat = <<>> THEN str = <<>>
    ELSE IF Head(pat) = "*"
    THEN \E i \in 0..Len(str) : GlobMatch(Tail(pat), SubSeq(str, i + 1, Len(str)))
    ELSE /\ str # <<>>
         /\ Head(str) = Head(pat)
         /\ GlobMatch(Tail(pat), Tail(str))

\* RedisCacheDatabase::keys: KEYS on the pattern behind the trader key; the
\* set of physical keys returned
keys(tk, conn, pattern) ==
    {k \in DOMAIN conn : GlobMatch(PhysicalKey(tk, pattern), k)}

\* (mutant) the flush removes nothing
FlushNothing(conn) == conn

\* (mutant) the flush removes only the keys under the caller's trader key
FlushOwnKeys(conn) ==
    [k \in {x \in DOMAIN conn : ~GlobMatch(PhysicalKey(trader_key, <<"*">>), x)}
        |-> conn[k]]

\* redis::cmd(FLUSHDB): what the database holds afterwards
FlushDb(conn) == EmptyStore

\* ---------------------------------------------------------------- commands
\* Option<String>
NoKey == [some |-> FALSE, s |-> <<>>]
SomeKey(k) == [some |-> TRUE, s |-> k]

\* DatabaseCommand::new and DatabaseCommand::close; `id` is the position of
\* the call in `calls` (history, not read by the program)
DatabaseCommand_new(id, op_type, key, payload) ==
    [id |-> id, op_type |-> op_type, key |-> SomeKey(key), payload |-> payload]
DatabaseCommand_close ==
    [id |-> 0, op_type |-> "Close", key |-> NoKey, payload |-> None]

\* ------------------------------------------------------------ construction
TraderId == <<"T-1">>
InstanceId == <<"abc">>

Flags == {"true", "false", "absent", "text"}

\* get_buffer_interval(&config) is defined outside the excerpt: any duration
BufferInterval == config.buffer_interval

\* no key-resolution call has been made
NoResults == [collection |-> <<>>, index |-> <<>>]

\* RedisCacheDatabase::new, both connections established
NewFacade(cfg) ==
    /\ config = cfg
    /\ trader_key = get_trader_key(TraderId, InstanceId, cfg)
    /\ chan = <<>>
    /\ rx_alive = TRUE
    /\ tx_alive = TRUE
    /\ handle = TRUE
    /\ fpc = "idle"
    /\ wstate = "Running"
    /\ buffer = <<>>
    /\ elapsed = 0
    /\ store = EmptyStore
    /\ calls = <<>>
    /\ closes = <<>>
    /\ drains = <<>>
    /\ recvd = <<>>
    /\ sinceRecv = 0

\* no BarType conversion is under way
NoBar ==
    /\ bar_type = <<>>
    /\ bar_text = <<>>
    /\ bar_parsed = <<>>

\* no key-resolution call is under way
NoProbe ==
    /\ probe_key = <<>>
    /\ probe_res = NoResults

\* a database no other facade has written to
NoAside ==
    /\ fg = <<>>
    /\ foreign = {}

\* no socket has been connected
NoSocket ==
    /\ suffix = <<>>
    /\ inner = "free"
    /\ shut = FALSE
    /\ read_task = "none"
    /\ aborted = FALSE
    /\ sbuf = <<>>
    /\ wire = <<>>
    /\ peer_closed = FALSE
    /\ cpc = "idle"
    /\ written = <<>>
    /\ read_hist = <<>>
    /\ handler_calls = <<>>

NewWith(cfg) ==
    /\ NewFacade(cfg)
    /\ NoProbe
    /\ NoBar
    /\ NoAside
    /\ NoSocket

\* ------------------------------------------------- steps of the handlers
\* (mutant) the message is pushed at the front of the buffer
BufferPushFront(buf, msg) == <<msg>> \o buf

\* buffer.push_back(msg)
BufferPush(buf, msg) == Append(buf, msg)

\* (mutant) a drain takes only the oldest message
DrainFirst(buf) == SubSeq(buf, 1, 1)

\* buffer.drain(..): the messages one drain_buffer call takes out of the buffer
DrainRange(buf) == buf

\* (mutant) a batch whose execution failed is put back for the next drain
RequeueOnFailure(rest, taken, ok) == IF ok THEN rest ELSE taken \o rest

\* what the buffer holds when drain_buffer returns: the drained messages are
\* gone whether pipe.query succeeded (ok) or failed
BufferAfterDrain(rest, taken, ok) == rest

\* (mutant) the worker takes no message for a Close
IsCloseNever(msg) == FALSE

\* if let DatabaseOperation::Close = msg.op_type
IsClose(msg) == msg.op_type = "Close"

\* (mutant) close() does not wait for the worker thread
JoinDoneEarly == TRUE

\* handle.join() has returned: the worker thread has ended
JoinDone == wstate \in {"Closed", "Panicked"}

\* ------------------------------------------------------------- the facade
NCalls == Len(calls) + Len(closes) + Len(fg) + (IF fpc = "joining" THEN 1 ELSE 0)

\* insert / update / delete: build the command and send it
Send(op_type, key, payload) ==
    /\ fpc = "idle"
    /\ tx_alive
    /\ NCalls < MaxCalls
    /\ IF rx_alive
       THEN /\ chan' = Append(chan,
                    DatabaseCommand_new(Len(calls) + 1, op_type, key, payload))
            /\ calls' = Append(calls, [op_type |-> op_type, key |-> key,
                                       payload |-> payload, res |-> "Ok"])
       ELSE /\ chan' = chan
            /\ calls' = Append(calls, [op_type |-> op_type, key |-> key,
                                       payload |-> payload, res |-> "ChannelError"])
    /\ UNCHANGED <<sock, probe, bar, aside, config, trader_key, rx_alive, tx_alive, handle, fpc, wstate,
                   buffer, elapsed, store, closes, drains, recvd, sinceRecv>>

Insert(key, payload) == Send("Insert", key, payload)
Update(key, payload) == Send("Update", key, payload)
Delete(key, payload) == Send("Delete", key, payload)

CloseRecord(res) == [res |-> res, ncalls |-> Len(calls)]

\* close(), up to the join: send Close, then take the handle
Close ==
    /\ fpc = "idle"
    /\ tx_alive
    /\ NCalls < MaxCalls
    /\ IF ~rx_alive
       THEN /\ closes' = Append(closes, CloseRecord("SendError"))
            /\ UNCHANGED <<chan, handle, fpc>>
       ELSE /\ chan' = Append(chan, DatabaseCommand_close)
            /\ IF handle
               THEN /\ handle' = FALSE
                    /\ fpc' = "joining"
                    /\ closes' = closes
               ELSE /\ closes' = Append(closes, CloseRecord("AlreadyShutdown"))
                    /\ UNCHANGED <<handle, fpc>>
    /\ UNCHANGED <<sock, probe, bar, aside, config, trader_key, rx_alive, tx_alive, wstate, buffer,
                   elapsed, store, calls, drains, recvd, sinceRecv>>

\* close(): handle.join() returns when the worker thread has ended
CloseJoined ==
    /\ fpc = "joining"
    /\ JoinDone
    /\ fpc' = "idle"
    /\ closes' = Append(closes,
           CloseRecord(IF wstate = "Closed" THEN "Ok" ELSE "JoinError"))
    /\ UNCHANGED <<sock, probe, bar, aside, config, trader_key, chan, rx_alive, tx_alive, handle, wstate,
                   buffer, elapsed, store, calls, drains, recvd, sinceRecv>>

\* the facade is dropped without close(): the Sender goes, the thread detaches
DropFacade ==
    /\ fpc = "idle"
    /\ tx_alive
    /\ tx_alive' = FALSE
    /\ handle' = FALSE
    /\ UNCHANGED <<sock, probe, bar, aside, config, trader_key, chan, rx_alive, fpc, wstate, buffer,
                   elapsed, store, calls, closes, drains, recvd, sinceRecv>>

\* a record of `fg`
FgRecord(op, key, res) == [op |-> op, key |-> key, res |-> res]

\* RedisCacheDatabase::new, as a call: config.database says whether the
\* config has the section, conn_ok whether create_redis_connection succeeds
\* for the foreground connection.  On success the worker thread is spawned.
New(conn_ok) ==
    /\ wstate = "NotStarted"
    /\ fg = <<>>
    /\ IF config.database = "absent"
       THEN /\ fg' = <<FgRecord("new", <<>>, Err("ConfigurationError"))>>
            /\ UNCHANGED <<trader_key, rx_alive, tx_alive, handle, wstate>>
       ELSE IF ~conn_ok
       THEN /\ fg' = <<FgRecord("new", <<>>, Err("ConnectionError"))>>
            /\ UNCHANGED <<trader_key, rx_alive, tx_alive, handle, wstate>>
       ELSE /\ fg' = <<FgRecord("new", <<>>, Ok(<<>>))>>
            /\ trader_key' = get_trader_key(TraderId, InstanceId, config)
            /\ rx_alive' = TRUE
            /\ tx_alive' = TRUE
            /\ handle' = TRUE
            /\ wstate' = "Starting"
    /\ UNCHANGED <<sock, probe, bar, foreign, config, chan, fpc, buffer, elapsed,
                   store, calls, closes, drains, recvd, sinceRecv>>

\* read(key) on the foreground connection, the server answering (up) or not
Read(key, up) ==
    /\ fpc = "idle"
    /\ tx_alive
    /\ NCalls < MaxCalls
    /\ \E r \in read(trader_key, Connection(up, store), key) :
          fg' = Append(fg, FgRecord("read", key, r))
    /\ UNCHANGED <<sock, probe, bar, foreign, config, trader_key, chan, rx_alive,
                   tx_alive, handle, fpc, wstate, buffer, elapsed, store, calls,
                   closes, drains, recvd, sinceRecv>>

\* the record of a flushdb() call, with the numbers of calls made and of
\* drains taken before it (history)
FlushRecord(res) ==
    [op |-> "flushdb", key |-> <<>>, res |-> res,
     ncalls |-> Len(calls), ndrains |-> Len(drains)]

\* flushdb(): FLUSHDB on the foreground connection; the query may fail
Flushdb ==
    /\ fpc = "idle"
    /\ tx_alive
    /\ NCalls < MaxCalls
    /\ \E ok \in BOOLEAN :
          /\ store' = IF ok THEN FlushDb(store) ELSE store
          /\ fg' = Append(fg, FlushRecord(IF ok THEN Ok(<<>>) ELSE Err("StoreError")))
    /\ UNCHANGED <<sock, probe, bar, foreign, config, trader_key, chan, rx_alive,
                   tx_alive, handle, fpc, wstate, buffer, elapsed, calls, closes,
                   drains, recvd, sinceRecv>>

\* another facade, with trader key `other`, on the same database: its worker
\* executes a batch of one insert
OtherFacadeInsert(other, key, payload) ==
    LET built == BuildPipeline(other,
                    <<DatabaseCommand_new(0, "Insert", key, payload)>>)
    IN  /\ other # trader_key
        /\ built.pipe # <<>>
        /\ PhysicalKey(other, key) \notin foreign
        /\ store' = ApplyAll(store, built.pipe)
        /\ foreign' = foreign \cup {PhysicalKey(other, key)}
        /\ UNCHANGED <<sock, probe, bar, fg, config, trader_key, chan, rx_alive,
                       tx_alive, handle, fpc, wstate, buffer, elapsed, calls,
                       closes, drains, recvd, sinceRecv>>

\* ------------------------------------------------------------- the worker
\* handle_messages, before the loop: the worker opens its own connection
\* and unwraps the result (a failure panics the thread)
WorkerStart(conn_ok) ==
    /\ wstate = "Starting"
    /\ IF conn_ok
       THEN /\ wstate' = "Running"
            /\ elapsed' = 0
            /\ UNCHANGED <<chan, rx_alive>>
       ELSE /\ wstate' = "Panicked"
            /\ chan' = <<>>
            /\ rx_alive' = FALSE
            /\ UNCHANGED elapsed
    /\ UNCHANGED <<sock, probe, bar, aside, config, trader_key, tx_alive, handle, fpc,
                   buffer, store, calls, closes, drains, recvd, sinceRecv>>

\* (mutant) the drain waits for more than one buffer interval
DrainDueLate == elapsed > BufferInterval /\ buffer # <<>>
\* (mutant) the buffer is drained whenever it holds a command
DrainDueAnytime == buffer # <<>>
\* the test at the top of handle_messages' loop
DrainDue == elapsed >= BufferInterval /\ buffer # <<>>

IdsOf(buf) == [i \in 1..Len(buf) |-> buf[i].id]

DrainRecord(taken, built, ok, final) ==
    [taken |-> IdsOf(taken), ids |-> built.ids, skipped |-> built.skipped,
     pipe |-> built.pipe, panic |-> built.panic, ok |-> ok, final |-> final]

\* drain_buffer(conn, trader_key, buffer); `after` is the worker's state when
\* the call returns.  A panic unwinds the thread: buffer and receiver go.
DrainBuffer(final, after) ==
    LET taken == DrainRange(buffer)
        rest == SubSeq(buffer, Len(taken) + 1, Len(buffer))
        built == BuildPipeline(trader_key, taken)
    IN  IF built.panic
        THEN /\ wstate' = "Panicked"
             /\ buffer' = <<>>
             /\ chan' = <<>>
             /\ rx_alive' = FALSE
             /\ store' = store
             /\ drains' = Append(drains, DrainRecord(taken, built, FALSE, final))
        ELSE \E fail \in QueryOutcomes(built.pipe) :
             /\ wstate' = after
             /\ buffer' = BufferAfterDrain(rest, taken, fail = -1)
             /\ store' = Query(store, built.pipe, fail)
             /\ drains' = Append(drains, DrainRecord(taken, built, fail = -1, final))
             /\ IF final
                THEN chan' = <<>> /\ rx_alive' = FALSE
                ELSE UNCHANGED <<chan, rx_alive>>

\* loop iteration, first branch: drain and restart the timer
WorkerDrain ==
    /\ wstate = "Running"
    /\ DrainDue
    /\ DrainBuffer(FALSE, "Running")
    /\ elapsed' = 0
    /\ UNCHANGED <<sock, probe, bar, aside, config, trader_key, tx_alive, handle, fpc, calls, closes,
                   recvd, sinceRecv>>

\* loop iteration, second branch, rx.try_recv() = Ok(msg)
WorkerRecv ==
    /\ wstate = "Running"
    /\ ~DrainDue
    /\ rx_alive
    /\ chan # <<>>
    /\ IF IsClose(Head(chan))
       THEN /\ rx_alive' = FALSE
            /\ chan' = <<>>
            /\ wstate' = "Final"
            /\ UNCHANGED <<buffer, recvd, sinceRecv>>
       ELSE /\ buffer' = BufferPush(buffer, Head(chan))
            /\ chan' = Tail(chan)
            /\ recvd' = Append(recvd,
                   [id |-> Head(chan).id,
                    near |-> recvd # <<>> /\ sinceRecv < BufferInterval,
                    epoch |-> Len(drains)])
            /\ sinceRecv' = 0
            /\ UNCHANGED <<rx_alive, wstate>>
    /\ UNCHANGED <<sock, probe, bar, aside, config, trader_key, tx_alive, handle, fpc, elapsed, store,
                   calls, closes, drains>>

\* loop iteration, second branch, rx.try_recv() = Err(Disconnected)
WorkerDisconnected ==
    /\ wstate = "Running"
    /\ ~DrainDue
    /\ chan = <<>>
    /\ ~tx_alive
    /\ wstate' = "Final"
    /\ UNCHANGED <<sock, probe, bar, aside, config, trader_key, chan, rx_alive, tx_alive, handle, fpc,
                   buffer, elapsed, store, calls, closes, drains, recvd, sinceRecv>>

\* after the loop: drain what remains, then the thread ends
WorkerFinal ==
    /\ wstate = "Final"
    /\ IF buffer # <<>>
       THEN DrainBuffer(TRUE, "Closed")
       ELSE /\ wstate' = "Closed"
            /\ chan' = <<>>
            /\ rx_alive' = FALSE
            /\ UNCHANGED <<buffer, store, drains>>
    /\ UNCHANGED <<sock, probe, bar, aside, config, trader_key, tx_alive, handle, fpc, elapsed, calls,
                   closes, recvd, sinceRecv>>

\* time passes (also the worker's 1 ms sleep on an empty channel)
Tick ==
    /\ elapsed' = Min(elapsed + 1, BufferInterval)
    /\ sinceRecv' = Min(sinceRecv + 1, BufferInterval)
    /\ UNCHANGED <<sock, probe, bar, aside, config, trader_key, chan, rx_alive, tx_alive, handle, fpc,
                   wstate, buffer, store, calls, closes, drains, recvd>>

\* ------------------------------------------------------ key resolution
\* a caller (read, drain_buffer) resolves the collection of probe_key
ResolveCollection ==
    /\ Len(probe_res.collection) < MaxResolve
    /\ probe_res' = [probe_res EXCEPT
                        !.collection = Append(@, get_collection_key(probe_key))]
    /\ UNCHANGED <<sock, probe_key, bar, aside, config, trader_key, chan, rx_alive, tx_alive,
                   handle, fpc, wstate, buffer, elapsed, store, calls, closes,
                   drains, recvd, sinceRecv>>

\* a caller (read_index, insert_index, remove_index) resolves the index name
ResolveIndex ==
    /\ Len(probe_res.index) < MaxResolve
    /\ probe_res' = [probe_res EXCEPT
                        !.index = Append(@, get_index_key(probe_key))]
    /\ UNCHANGED <<sock, probe_key, bar, aside, config, trader_key, chan, rx_alive, tx_alive,
                   handle, fpc, wstate, buffer, elapsed, store, calls, closes,
                   drains, recvd, sinceRecv>>

\* ------------------------------------------------------------ inputs
A == <<"a">>
B == <<"b">>

K_ORDER == <<"orders", ":", "O-1">>
K_ACTOR == <<"actors", ":", "A-1">>
K_GENERAL == <<"general", ":", "g">>
K_ORDERS_OPEN == <<"index", ":", "orders_open">>
K_ORDER_POSITION == <<"index", ":", "order_position">>
K_NODELIM == <<"no_delimiter">>

DefaultConfig(interval) ==
    [use_trader_prefix |-> "absent", use_instance_id |-> "absent",
     buffer_interval |-> interval]

\* ------------------------------------------------- specification: the flow
\* Valid commands on a list key and a scalar key, every buffer interval,
\* store failures, close.
Init == \E iv \in 0..MaxInterval : NewWith(DefaultConfig(iv))

InsertMenu == {<<K_ORDER, Some(<<A>>)>>, <<K_ACTOR, Some(<<A>>)>>}
UpdateMenu == {<<K_ORDER, Some(<<B>>)>>}
DeleteMenu == {<<K_ACTOR, None>>}

Next ==
    \/ \E m \in InsertMenu : Insert(m[1], m[2])
    \/ \E m \in UpdateMenu : Update(m[1], m[2])
    \/ \E m \in DeleteMenu : Delete(m[1], m[2])
    \/ Close
    \/ CloseJoined
    \/ WorkerDrain
    \/ WorkerRecv
    \/ WorkerFinal
    \/ Tick

Spec == Init /\ [][Next]_vars

\* --------------------------------- specification: valid and invalid commands
\* The default trader key, one buffer interval long enough for batches of
\* several commands, and commands of every kind the drain can meet.
K_SNAPSHOT == <<"snapshots", ":", "s">>
K_HEALTH == <<"health", ":", "h">>

InitCmds == NewWith(DefaultConfig(MaxInterval))

InsertMenuCmds ==
    {<<K_ORDER, Some(<<A>>)>>,            \* valid
     <<K_ORDER, Some(<<A, B>>)>>,         \* valid, two segments
     <<K_ORDER, None>>,                   \* no payload
     <<K_ORDER, Some(<<>>)>>,             \* empty payload
     <<K_NODELIM, Some(<<A>>)>>,          \* key without delimiter
     <<K_ORDER_POSITION, Some(<<A>>)>>}   \* mapping hash, one segment
UpdateMenuCmds ==
    {<<K_GENERAL, Some(<<A>>)>>}          \* update on a scalar collection
DeleteMenuCmds ==
    {<<K_ORDER, None>>,                   \* delete on a list collection
     <<K_ORDER_POSITION, Some(<<A>>)>>,   \* removal from a mapping hash
     <<K_ORDERS_OPEN, Some(<<>>)>>}       \* removal with an empty payload

NextCmds ==
    \/ \E m \in InsertMenuCmds : Insert(m[1], m[2])
    \/ \E m \in UpdateMenuCmds : Update(m[1], m[2])
    \/ \E m \in DeleteMenuCmds : Delete(m[1], m[2])
    \/ Close
    \/ CloseJoined
    \/ WorkerDrain
    \/ WorkerRecv
    \/ WorkerFinal
    \/ Tick

SpecCmds == InitCmds /\ [][NextCmds]_vars

\* --------------------------------------- specification: the support table
\* The default trader key; commands the support table rejects next to a
\* valid insert and to an insert that makes the drain panic.
InitTable == NewWith(DefaultConfig(MaxInterval))

InsertMenuTable ==
    {<<K_ORDER, Some(<<A>>)>>,            \* supported
     <<K_ORDER_POSITION, Some(<<A>>)>>}   \* mapping hash, one segment
UpdateMenuTable ==
    {<<K_GENERAL, Some(<<A>>)>>}          \* update on a scalar collection
DeleteMenuTable ==
    {<<K_ORDER, None>>,                   \* delete on a list collection
     <<K_ORDER_POSITION, Some(<<A>>)>>}   \* removal from a mapping hash

NextTable ==
    \/ \E m \in InsertMenuTable : Insert(m[1], m[2])
    \/ \E m \in UpdateMenuTable : Update(m[1], m[2])
    \/ \E m \in DeleteMenuTable : Delete(m[1], m[2])
    \/ Close
    \/ CloseJoined
    \/ WorkerDrain
    \/ WorkerRecv
    \/ WorkerFinal
    \/ Tick

SpecTable == InitTable /\ [][NextTable]_vars

\* ------------------------------------ specification: trader-key configurations
\* Every value of the two trader-key options, well-formed commands on a list
\* key and on index keys.
InitCfg ==
    \E p \in {"true", "false"}, u \in {"true", "false"} :
        NewWith([use_trader_prefix |-> p, use_instance_id |-> u,
                 buffer_interval |-> MaxInterval])

InsertMenuCfg ==
    {<<K_ORDER, Some(<<A>>)>>,
     <<K_ORDERS_OPEN, Some(<<A>>)>>,
     <<K_ORDER_POSITION, Some(<<A, B>>)>>}
DeleteMenuCfg == {<<K_ORDERS_OPEN, Some(<<A>>)>>}

NextCfg ==
    \/ \E m \in InsertMenuCfg : Insert(m[1], m[2])
    \/ \E m \in DeleteMenuCfg : Delete(m[1], m[2])
    \/ Close
    \/ CloseJoined
    \/ WorkerDrain
    \/ WorkerRecv
    \/ WorkerFinal
    \/ Tick

SpecCfg == InitCfg /\ [][NextCfg]_vars

\* ------------------------------------ specification: a shared database
\* Two facades on one database: this one with or without the instance id,
\* the other one with another trader id or with the other instance-id
\* setting.  Scalar keys only; flushdb.
OtherTraderKeys ==
    {<<"T-2">>,
     get_trader_key(TraderId, InstanceId,
         [use_trader_prefix |-> "false", use_instance_id |-> "true"]),
     get_trader_key(TraderId, InstanceId,
         [use_trader_prefix |-> "false", use_instance_id |-> "false"])}

InitShared ==
    \E u \in {"true", "false"} :
        NewWith([use_trader_prefix |-> "false", use_instance_id |-> u,
                 buffer_interval |-> 0])

InsertMenuShared == {<<K_ACTOR, Some(<<A>>)>>}

NextShared ==
    \/ \E m \in InsertMenuShared : Insert(m[1], m[2])
    \/ \E other \in OtherTraderKeys : OtherFacadeInsert(other, K_ACTOR, Some(<<B>>))
    \/ Flushdb
    \/ Close
    \/ CloseJoined
    \/ WorkerDrain
    \/ WorkerRecv
    \/ WorkerFinal
    \/ Tick

SpecShared == InitShared /\ [][NextShared]_vars

\* --------------------------------------- specification: construction
\* new() on a config with or without the `database` section, each of the
\* two connections established or refused; then valid commands and close.
InitNew ==
    /\ \E d \in {"present", "absent"} :
          config = [use_trader_prefix |-> "absent", use_instance_id |-> "absent",
                    buffer_interval |-> 0, database |-> d]
    /\ trader_key = <<>>
    /\ chan = <<>>
    /\ rx_alive = FALSE
    /\ tx_alive = FALSE
    /\ handle = FALSE
    /\ fpc = "idle"
    /\ wstate = "NotStarted"
    /\ buffer = <<>>
    /\ elapsed = 0
    /\ store = EmptyStore
    /\ calls = <<>>
    /\ closes = <<>>
    /\ drains = <<>>
    /\ recvd = <<>>
    /\ sinceRecv = 0
    /\ NoProbe
    /\ NoBar
    /\ NoAside
    /\ NoSocket

NextNew ==
    \/ \E conn_ok \in BOOLEAN : New(conn_ok)
    \/ \E conn_ok \in BOOLEAN : WorkerStart(conn_ok)
    \/ \E m \in InsertMenu : Insert(m[1], m[2])
    \/ \E m \in UpdateMenu : Update(m[1], m[2])
    \/ \E m \in DeleteMenu : Delete(m[1], m[2])
    \/ Close
    \/ CloseJoined
    \/ WorkerDrain
    \/ WorkerRecv
    \/ WorkerFinal
    \/ Tick

SpecNew == InitNew /\ [][NextNew]_vars

\* --------------------------------------------- specification: reads
\* Reads of a key of every collection, of an unknown collection and of a key
\* without delimiter, the server answering or not, next to two inserts.
K_UNKNOWN == <<"unknown", ":", "u">>
ReadKeys ==
    {c \o <<DELIMITER, "x">> :
        c \in {GENERAL, CURRENCIES, INSTRUMENTS, SYNTHETICS, ACCOUNTS, POSITIONS,
               ACTORS, STRATEGIES}}
    \cup {K_ORDER, K_ORDERS_OPEN, K_ORDER_POSITION, K_SNAPSHOT, K_HEALTH,
          K_UNKNOWN, K_NODELIM}

InitRead ==
    \E i \in {"absent", "true"} :
        NewWith([use_trader_prefix |-> "absent", use_instance_id |-> i,
                 buffer_interval |-> 0])

InsertMenuRead == {<<K_ORDER, Some(<<A>>)>>, <<K_ORDERS_OPEN, Some(<<A>>)>>}

NextRead ==
    \/ \E m \in InsertMenuRead : Insert(m[1], m[2])
    \/ \E key \in ReadKeys, up \in BOOLEAN : Read(key, up)
    \/ Close
    \/ CloseJoined
    \/ WorkerDrain
    \/ WorkerRecv
    \/ WorkerFinal
    \/ Tick

SpecRead == InitRead /\ [][NextRead]_vars

\* ------------------------------------- specification: value encoding
\* The default trader key; inserts and updates on list and scalar keys with
\* payloads of one and of two segments, an insert on an unknown collection
\* and an update on a scalar collection.
InitEncode == NewWith(DefaultConfig(0))

InsertMenuEncode ==
    {<<K_ORDER, Some(<<A>>)>>,
     <<K_ORDER, Some(<<B>>)>>,
     <<K_ORDER, Some(<<A, B>>)>>,         \* two segments
     <<K_ACTOR, Some(<<A>>)>>,
     <<K_ACTOR, Some(<<B>>)>>,
     <<K_HEALTH, Some(<<A>>)>>,
     <<K_SNAPSHOT, Some(<<A>>)>>,
     <<K_UNKNOWN, Some(<<A>>)>>}          \* unknown collection
UpdateMenuEncode ==
    {<<K_ORDER, Some(<<B>>)>>,
     <<K_ORDER, Some(<<A, B>>)>>,         \* two segments
     <<K_ACTOR, Some(<<A>>)>>}            \* update on a scalar collection

NextEncode ==
    \/ \E m \in InsertMenuEncode : Insert(m[1], m[2])
    \/ \E m \in UpdateMenuEncode : Update(m[1], m[2])
    \/ Close
    \/ CloseJoined
    \/ WorkerDrain
    \/ WorkerRecv
    \/ WorkerFinal
    \/ Tick

SpecEncode == InitEncode /\ [][NextEncode]_vars

\* ------------------------------------ specification: the worker's life
\* The ways the worker can end: close(), the facade dropped without close(),
\* and a command that makes drain_buffer panic.
InitLife == NewWith(DefaultConfig(MaxInterval))

InsertMenuLife ==
    {<<K_ORDER, Some(<<A>>)>>,
     <<K_ORDER_POSITION, Some(<<A>>)>>}   \* mapping hash, one segment: panics

NextLife ==
    \/ \E m \in InsertMenuLife : Insert(m[1], m[2])
    \/ Close
    \/ CloseJoined
    \/ DropFacade
    \/ WorkerDrain
    \/ WorkerRecv
    \/ WorkerDisconnected
    \/ WorkerFinal
    \/ Tick

SpecLife == InitLife /\ [][NextLife]_vars

\* ------------------------------------ specification: a running worker
\* The flow under the scheduling of the code: time passes, and the worker
\* thread, once it can take a step of its loop, takes it.
InitLive == \E iv \in 0..MaxInterval : NewWith(DefaultConfig(iv))

InsertMenuLive == {<<K_ORDER, Some(<<A>>)>>}

NextLive ==
    \/ \E m \in InsertMenuLive : Insert(m[1], m[2])
    \/ Close
    \/ CloseJoined
    \/ WorkerDrain
    \/ WorkerRecv
    \/ WorkerFinal
    \/ Tick

SpecLive ==
    /\ InitLive
    /\ [][NextLive]_vars
    /\ WF_vars(Tick)
    /\ WF_vars(WorkerDrain)

\* ------------------------------ specification: index payloads of any arity
\* The default trader key; index commands whose payload has more segments
\* than the structure takes, and two inserts of one field of a mapping hash.
InitArity == NewWith(DefaultConfig(MaxInterval))

InsertMenuArity ==
    {<<K_ORDERS_OPEN, Some(<<A, B>>)>>,        \* membership set, two segments
     <<K_ORDER_POSITION, Some(<<A, B>>)>>,     \* mapping hash, field a := b
     <<K_ORDER_POSITION, Some(<<A, A>>)>>,     \* mapping hash, field a := a
     <<K_ORDER_POSITION, Some(<<B, A, B>>)>>}  \* mapping hash, three segments
DeleteMenuArity ==
    {<<K_ORDERS_OPEN, Some(<<A, B>>)>>}        \* removal, two segments

NextArity ==
    \/ \E m \in InsertMenuArity : Insert(m[1], m[2])
    \/ \E m \in DeleteMenuArity : Delete(m[1], m[2])
    \/ Close
    \/ CloseJoined
    \/ WorkerDrain
    \/ WorkerRecv
    \/ WorkerFinal
    \/ Tick

SpecArity == InitArity /\ [][NextArity]_vars

\* ------------------------------------ specification: the key functions
\* get_trader_key on every value of the two options, get_collection_key and
\* get_index_key on every key of at most MaxKeyLen tokens.
KeyTokens == {"index", DELIMITER, "x"}
Keys == UNION {[1..n -> KeyTokens] : n \in 0..MaxKeyLen}

InitRouter ==
    /\ \E p \in Flags, u \in Flags :
           NewFacade([use_trader_prefix |-> p, use_instance_id |-> u,
                      buffer_interval |-> 0])
    /\ probe_key \in Keys
    /\ probe_res = NoResults
    /\ NoBar
    /\ NoAside
    /\ NoSocket

NextRouter ==
    \/ ResolveCollection
    \/ ResolveIndex

SpecRouter == InitRouter /\ [][NextRouter]_vars

\* -------------------------------------- specification: membership sets
\* The default trader key; inserts, an update and deletes on a base set
\* (order_ids) and on a set with a removal path (orders_open).
K_ORDER_IDS == <<"index", ":", "order_ids">>

InitIndex == NewWith(DefaultConfig(MaxInterval))

InsertMenuIndex ==
    {<<K_ORDER_IDS, Some(<<A>>)>>,
     <<K_ORDERS_OPEN, Some(<<A>>)>>}
UpdateMenuIndex ==
    {<<K_ORDER_IDS, Some(<<A>>)>>}
DeleteMenuIndex ==
    {<<K_ORDER_IDS, Some(<<A>>)>>,
     <<K_ORDERS_OPEN, Some(<<A>>)>>}

NextIndex ==
    \/ \E m \in InsertMenuIndex : Insert(m[1], m[2])
    \/ \E m \in UpdateMenuIndex : Update(m[1], m[2])
    \/ \E m \in DeleteMenuIndex : Delete(m[1], m[2])
    \/ Close
    \/ CloseJoined
    \/ WorkerDrain
    \/ WorkerRecv
    \/ WorkerFinal
    \/ Tick

SpecIndex == InitIndex /\ [][NextIndex]_vars

\* ------------------------------------------------------- bar types
\* Text is a sequence of tokens; "-" and "." are tokens of their own, a
\* decimal digit is a token, every other token is a run of other characters.
HYPHEN == "-"
DOT == "."
Digits == <<"0", "1", "2", "3", "4", "5", "6", "7", "8", "9">>

Reverse(q) == [i \in 1..Len(q) |-> q[Len(q) + 1 - i]]

\* Display for usize: the decimal digits
RECURSIVE usize_Display(_)
usize_Display(n) ==
    IF n < 10 THEN <<Digits[n + 1]>>
    ELSE usize_Display(n \div 10) \o <<Digits[(n % 10) + 1]>>

RECURSIVE DigitsValue(_, _)
DigitsValue(toks, acc) ==
    IF toks = <<>> THEN acc
    ELSE DigitsValue(Tail(toks),
            10 * acc + (CHOOSE d \in 0..9 : Digits[d + 1] = Head(toks)))

\* str::parse::<usize>: a non-empty run of digits
usize_parse(toks) ==
    IF toks = <<>> \/ \E i \in 1..Len(toks) : toks[i] \notin {Digits[d] : d \in 1..10}
    THEN Err("ParseIntError")
    ELSE Ok(DigitsValue(toks, 0))

\* the variants bar.rs names, with their text
BarAggregationText == [Minute |-> "MINUTE"]
PriceTypeText == [Bid |-> "BID", Last |-> "LAST"]
AggregationSourceText == [External |-> "EXTERNAL", Internal |-> "INTERNAL"]

\* Display of an enum, and from_str: the variant whose text the piece is
EnumDisplay(table, v) == <<table[v]>>
EnumFromStr(table, toks) ==
    IF \E v \in DOMAIN table : toks = <<table[v]>>
    THEN Ok(CHOOSE v \in DOMAIN table : toks = <<table[v]>>)
    ELSE Err("ParseError")

\* InstrumentId: "{symbol}.{venue}", parsed back at the last "."
InstrumentId_Display(id) == id.symbol \o <<DOT>> \o id.venue
InstrumentId_from_str(toks) ==
    IF ~\E i \in 1..Len(toks) : toks[i] = DOT
    THEN Err("ParseError")
    ELSE LET p == CHOOSE i \in 1..Len(toks) :
                     toks[i] = DOT /\ \A j \in (i + 1)..Len(toks) : toks[j] # DOT
         IN  IF p = 1 \/ p = Len(toks) THEN Err("ParseError")
             ELSE Ok([symbol |-> SubSeq(toks, 1, p - 1),
                      venue |-> SubSeq(toks, p + 1, Len(toks))])

\* Display for BarSpecification: "{step}-{aggregation}-{price_type}"
BarSpecification_Display(spec) ==
    usize_Display(spec.step) \o <<HYPHEN>>
    \o EnumDisplay(BarAggregationText, spec.aggregation) \o <<HYPHEN>>
    \o EnumDisplay(PriceTypeText, spec.price_type)

\* Display for BarType: "{instrument_id}-{spec}-{aggregation_source}"
BarType_Display(bt) ==
    InstrumentId_Display(bt.instrument_id) \o <<HYPHEN>>
    \o BarSpecification_Display(bt.spec) \o <<HYPHEN>>
    \o EnumDisplay(AggregationSourceText, bt.aggregation_source)

\* str::rsplitn(n, '-'): at most n pieces, the rightmost first, the last
\* piece the unsplit rest
RECURSIVE rsplitn(_, _)
rsplitn(n, s) ==
    IF n <= 1 \/ ~\E i \in 1..Len(s) : s[i] = HYPHEN THEN <<s>>
    ELSE LET p == CHOOSE i \in 1..Len(s) :
                     s[i] = HYPHEN /\ \A j \in (i + 1)..Len(s) : s[j] # HYPHEN
         IN  <<SubSeq(s, p + 1, Len(s))>> \o rsplitn(n - 1, SubSeq(s, 1, p - 1))

\* str::splitn(n, '-'): at most n pieces, the leftmost first
RECURSIVE splitn(_, _)
splitn(n, s) ==
    IF n <= 1 \/ ~\E i \in 1..Len(s) : s[i] = HYPHEN THEN <<s>>
    ELSE LET p == CHOOSE i \in 1..Len(s) :
                     s[i] = HYPHEN /\ \A j \in 1..(i - 1) : s[j] # HYPHEN
         IN  <<SubSeq(s, 1, p - 1)>> \o splitn(n - 1, SubSeq(s, p + 1, Len(s)))

\* (mutant) the text is split from the left
rev_pieces_from_left(s) == splitn(5, s)
\* the pieces of from_str, instrument id first
rev_pieces(s) == Reverse(rsplitn(5, s))

BarTypeParseError(token, position) ==
    [ok |-> FALSE, val |-> <<>>, err |-> "BarTypeParseError",
     token |-> token, position |-> position]

\* BarType::from_str
BarType_from_str(s) ==
    LET pieces == rev_pieces(s) IN
    IF Len(pieces) # 5 THEN BarTypeParseError(<<>>, 0)
    ELSE LET instrument_id == InstrumentId_from_str(pieces[1])
             step == usize_parse(pieces[2])
             aggregation == EnumFromStr(BarAggregationText, pieces[3])
             price_type == EnumFromStr(PriceTypeText, pieces[4])
             aggregation_source == EnumFromStr(AggregationSourceText, pieces[5])
         IN  IF ~instrument_id.ok THEN BarTypeParseError(pieces[1], 0)
             ELSE IF ~step.ok THEN BarTypeParseError(pieces[2], 1)
             ELSE IF ~aggregation.ok THEN BarTypeParseError(pieces[3], 2)
             ELSE IF ~price_type.ok THEN BarTypeParseError(pieces[4], 3)
             ELSE IF ~aggregation_source.ok THEN BarTypeParseError(pieces[5], 4)
             ELSE Ok([instrument_id |-> instrument_id.val,
                      spec |-> [step |-> step.val,
                                aggregation |-> aggregation.val,
                                price_type |-> price_type.val],
                      aggregation_source |-> aggregation_source.val])

\* to_string() of the bar type at hand
Format ==
    /\ bar_type # <<>>
    /\ bar_text = <<>>
    /\ bar_text' = BarType_Display(bar_type)
    /\ UNCHANGED <<sock, bar_type, bar_parsed, probe, aside, config, trader_key, chan,
                   rx_alive, tx_alive, handle, fpc, wstate, buffer, elapsed,
                   store, calls, closes, drains, recvd, sinceRecv>>

\* BarType::from_str of the text at hand
Parse ==
    /\ bar_text # <<>>
    /\ bar_parsed = <<>>
    /\ bar_parsed' = BarType_from_str(bar_text)
    /\ UNCHANGED <<sock, bar_type, bar_text, probe, aside, config, trader_key, chan,
                   rx_alive, tx_alive, handle, fpc, wstate, buffer, elapsed,
                   store, calls, closes, drains, recvd, sinceRecv>>

\* --------------------------------------- specification: bar type text
\* Every bar type over symbols of up to MaxSymLen tokens, hyphens and dots
\* among them, is formatted and the text parsed back; so are the two texts
\* of the parser's own tests.
SymbolTokens == {"BTCUSDT", HYPHEN, DOT}
Symbols == UNION {[1..n -> SymbolTokens] : n \in 1..MaxSymLen}
Venues == {<<"BINANCE">>, <<"SIM">>}
BarTypes ==
    [instrument_id : [symbol : Symbols, venue : Venues],
     spec : [step : 0..MaxStep, aggregation : DOMAIN BarAggregationText,
             price_type : DOMAIN PriceTypeText],
     aggregation_source : DOMAIN AggregationSourceText]
TestTexts ==
    {<<"BTCUSDT", "-", "PERP", ".", "BINANCE", "-", "1", "-", "MINUTE", "-",
       "LAST", "-", "EXTERNAL">>,
     <<"BTCUSDT", "-", "PERP", "-", "1", "-", "MINUTE", "-", "LAST", "-",
       "INTERNAL">>}

InitBar ==
    /\ NewFacade(DefaultConfig(0))
    /\ NoProbe
    /\ NoAside
    /\ NoSocket
    /\ bar_parsed = <<>>
    /\ \/ bar_type \in BarTypes /\ bar_text = <<>>
       \/ bar_type = <<>> /\ bar_text \in TestTexts

NextBar ==
    \/ Format
    \/ Parse

SpecBar == InitBar /\ [][NextBar]_vars

\* ------------------------------------------------------- the socket client
\* nautilus_core/network/src/socket.rs: SocketClient owns the stream behind a
\* tokio Mutex (`inner`) that it shares with the read task it spawns; the
\* task reads into `buf` and hands every suffix-terminated frame to the
\* Python handler.  Bytes are tokens; the runtime is the multi-threaded one
\* the Python bindings run on, so the task's steps between two awaits
\* interleave with the owner's calls.
CR == "CR"
LF == "LF"
Bytes == {"a", CR, LF}

\* the suffixes connect_url is given: b"\r\n" as in the tests, and b"\n"
\* (an empty suffix makes buf.windows(0) panic and terminates no frame)
Suffixes == {<<LF>>, <<CR, LF>>}

\* the payload of a send
Data == <<"a">>

\* buf.windows(n).enumerate(): the window starting at index i (from 1)
Window(b, i, n) == SubSeq(b, i, i + n - 1)
WindowStarts(b, sfx) == {i \in 1..(Len(b) - Len(sfx) + 1) : Window(b, i, Len(sfx)) = sfx}

\* (mutant) the search returns the last window equal to the suffix
FindSuffixLast(b, sfx) ==
    IF WindowStarts(b, sfx) = {} THEN 0
    ELSE CHOOSE i \in WindowStarts(b, sfx) : \A j \in WindowStarts(b, sfx) : j <= i

\* .find(|(_, pair)| pair.eq(&suffix)): the first window equal to the suffix,
\* 0 for None
FindSuffix(b, sfx) ==
    IF WindowStarts(b, sfx) = {} THEN 0
    ELSE CHOOSE i \in WindowStarts(b, sfx) : \A j \in WindowStarts(b, sfx) : i <= j

\* buf.drain(0..i + suffix.len()) followed by data.truncate(len - suffix.len())
FrameData(b, sfx) == SubSeq(b, 1, FindSuffix(b, sfx) - 1)
AfterDrain(b, sfx) == SubSeq(b, FindSuffix(b, sfx) + Len(sfx), Len(b))

\* read_task.is_finished() / SocketClient::is_alive
Running == {"lock", "read_buf", "framing"}
is_finished == read_task \notin Running
is_alive == ~is_finished

\* SocketClient::connect_url has returned: the stream is open and the read
\* task has been spawned
ConnectUrl(sfx) ==
    /\ suffix = sfx
    /\ inner = "free"
    /\ shut = FALSE
    /\ read_task = "lock"
    /\ aborted = FALSE
    /\ sbuf = <<>>
    /\ wire = <<>>
    /\ peer_closed = FALSE
    /\ cpc = "idle"
    /\ written = <<>>
    /\ read_hist = <<>>
    /\ handler_calls = <<>>

\* the peer writes one byte to the connection
PeerSend(b) ==
    /\ read_task # "none"
    /\ ~peer_closed
    /\ Len(read_hist) + Len(wire) < MaxStream
    /\ wire' = Append(wire, b)
    /\ UNCHANGED others
    /\ UNCHANGED <<suffix, inner, shut, read_task, aborted, sbuf, peer_closed,
                   cpc, written, read_hist, handler_calls>>

\* the peer closes the connection
PeerClose ==
    /\ read_task # "none"
    /\ ~peer_closed
    /\ peer_closed' = TRUE
    /\ UNCHANGED others
    /\ UNCHANGED <<suffix, inner, shut, read_task, aborted, sbuf, wire,
                   cpc, written, read_hist, handler_calls>>

\* reader.lock().await: the task takes the Mutex when it is free
ReadLock ==
    /\ read_task = "lock"
    /\ inner = "free"
    /\ inner' = "read_task"
    /\ read_task' = "read_buf"
    /\ UNCHANGED others
    /\ UNCHANGED <<suffix, shut, aborted, sbuf, wire, peer_closed,
                   cpc, written, read_hist, handler_calls>>

\* locked_reader.read_buf(&mut buf).await returns n > 0 bytes, whatever part
\* of the bytes in flight; then drop(locked_reader)
ReadBuf(n) ==
    /\ read_task = "read_buf"
    /\ n \in 1..Len(wire)
    /\ sbuf' = sbuf \o SubSeq(wire, 1, n)
    /\ read_hist' = read_hist \o SubSeq(wire, 1, n)
    /\ wire' = SubSeq(wire, n + 1, Len(wire))
    /\ inner' = "free"
    /\ read_task' = "framing"
    /\ UNCHANGED others
    /\ UNCHANGED <<suffix, shut, aborted, peer_closed, cpc, written, handler_calls>>

\* read_buf returns 0 at the end of the stream: the loop breaks, the task
\* returns Ok(())
ReadZero ==
    /\ read_task = "read_buf"
    /\ wire = <<>>
    /\ peer_closed
    /\ inner' = "free"
    /\ read_task' = "Ok"
    /\ UNCHANGED others
    /\ UNCHANGED <<suffix, shut, aborted, sbuf, wire, peer_closed,
                   cpc, written, read_hist, handler_calls>>

\* read_buf fails (connection reset): `?` ends the task with the error
ReadError ==
    /\ read_task = "read_buf"
    /\ inner' = "free"
    /\ read_task' = "Err"
    /\ UNCHANGED others
    /\ UNCHANGED <<suffix, shut, aborted, sbuf, wire, peer_closed,
                   cpc, written, read_hist, handler_calls>>

\* one turn of the `while let` loop: the frame up to the first suffix is
\* drained, truncated and passed to the handler; a handler that raises makes
\* the unwrap() panic the task
HandlerCall(raises) ==
    /\ read_task = "framing"
    /\ FindSuffix(sbuf, suffix) # 0
    /\ handler_calls' = Append(handler_calls, FrameData(sbuf, suffix))
    /\ sbuf' = AfterDrain(sbuf, suffix)
    /\ read_task' = IF raises THEN "Panicked" ELSE "framing"
    /\ UNCHANGED others
    /\ UNCHANGED <<suffix, inner, shut, aborted, wire, peer_closed,
                   cpc, written, read_hist>>

\* no suffix is left in buf: the task goes round the outer loop
FramingDone ==
    /\ read_task = "framing"
    /\ FindSuffix(sbuf, suffix) = 0
    /\ read_task' = "lock"
    /\ UNCHANGED others
    /\ UNCHANGED <<suffix, inner, shut, aborted, sbuf, wire, peer_closed,
                   cpc, written, read_hist, handler_calls>>

\* an aborted task is cancelled where it awaits (lock().await or
\* read_buf().await); the lock guard it holds is dropped with it.  A task that
\* is running when abort() is called goes on until it next yields, so the
\* steps above stay enabled.
Cancelled ==
    /\ aborted
    /\ read_task \in {"lock", "read_buf"}
    /\ read_task' = "Cancelled"
    /\ inner' = IF inner = "read_task" THEN "free" ELSE inner
    /\ UNCHANGED others
    /\ UNCHANGED <<suffix, shut, aborted, sbuf, wire, peer_closed,
                   cpc, written, read_hist, handler_calls>>

\* send_bytes / send is called and waits in inner.lock().await
SendBytes ==
    /\ read_task # "none"
    /\ cpc = "idle"
    /\ Len(written) < MaxSends * (Len(Data) + Len(suffix))
    /\ cpc' = "send"
    /\ UNCHANGED others
    /\ UNCHANGED <<suffix, inner, shut, read_task, aborted, sbuf, wire,
                   peer_closed, written, read_hist, handler_calls>>

\* the send has the lock: write_all(data), write_all(suffix); on a stream that
\* was shut down the write fails: send_bytes panics in unwrap(), send returns
\* the error
SendWrite ==
    /\ cpc = "send"
    /\ inner = "free"
    /\ IF shut
          THEN cpc' = "failed" /\ UNCHANGED written
          ELSE cpc' = "idle" /\ written' = written \o Data \o suffix
    /\ UNCHANGED others
    /\ UNCHANGED <<suffix, inner, shut, read_task, aborted, sbuf, wire,
                   peer_closed, read_hist, handler_calls>>

\* shutdown() / close(): read_task.abort(), then the call waits for the lock
\* (a second shutdown of the same socket is left out)
Shutdown ==
    /\ read_task # "none"
    /\ cpc = "idle"
    /\ ~shut
    /\ aborted' = TRUE
    /\ cpc' = "shutdown"
    /\ UNCHANGED others
    /\ UNCHANGED <<suffix, inner, shut, read_task, sbuf, wire, peer_closed,
                   written, read_hist, handler_calls>>

\* the shutdown has the lock: inner.shutdown().await, and the call returns
ShutdownStream ==
    /\ cpc = "shutdown"
    /\ inner = "free"
    /\ shut' = TRUE
    /\ cpc' = "idle"
    /\ UNCHANGED others
    /\ UNCHANGED <<suffix, inner, read_task, aborted, sbuf, wire, peer_closed,
                   written, read_hist, handler_calls>>

\* impl Drop for SocketClient: the read task is aborted
DropClient ==
    /\ read_task # "none"
    /\ cpc = "idle"
    /\ aborted' = TRUE
    /\ cpc' = "dropped"
    /\ UNCHANGED others
    /\ UNCHANGED <<suffix, inner, shut, read_task, sbuf, wire, peer_closed,
                   written, read_hist, handler_calls>>

InitSocket ==
    /\ NewFacade(DefaultConfig(0))
    /\ NoProbe
    /\ NoBar
    /\ NoAside
    /\ \E sfx \in Suffixes : ConnectUrl(sfx)

NextSocket ==
    \/ \E b \in Bytes : PeerSend(b)
    \/ PeerClose
    \/ ReadLock
    \/ \E n \in 1..MaxStream : ReadBuf(n)
    \/ ReadZero
    \/ ReadError
    \/ \E raises \in BOOLEAN : HandlerCall(raises)
    \/ FramingDone
    \/ Cancelled
    \/ SendBytes
    \/ SendWrite
    \/ Shutdown
    \/ ShutdownStream
    \/ DropClient

SpecSocket == InitSocket /\ [][NextSocket]_vars

\* ------------------------------------------ the vocabulary of the claims
\* The support table and the payload rules as the specification states them
\* (sections 3 and 4.4), on the logical key of a call.
HasDelimiter(key) == \E i \in 1..Len(key) : key[i] = DELIMITER
CollectionOf(key) == SubSeq(key, 1, DelimPos(key) - 1)
IndexNameOf(key) == SubSeq(key, DelimPos(key) + 1, Len(key))

TableCollections ==
    {GENERAL, CURRENCIES, INSTRUMENTS, SYNTHETICS, ACTORS, STRATEGIES,
     ACCOUNTS, ORDERS, POSITIONS, SNAPSHOTS, HEALTH, INDEX}
TableSetNames ==
    {<<"order_ids">>, <<"orders">>, <<"orders_open">>, <<"orders_closed">>,
     <<"orders_emulated">>, <<"orders_inflight">>, <<"positions">>,
     <<"positions_open">>, <<"positions_closed">>}
TableHashNames == {<<"order_position">>, <<"order_client">>}
TableRemovableNames ==
    {<<"orders_open">>, <<"orders_closed">>, <<"orders_emulated">>,
     <<"orders_inflight">>, <<"positions_open">>, <<"positions_closed">>}

\* the table marks (collection of key, op) as supported
TableSupports(op, key) ==
    LET c == CollectionOf(key) n == IndexNameOf(key) IN
    CASE op = "Insert" ->
            IF c = INDEX THEN n \in TableSetNames \cup TableHashNames
            ELSE c \in TableCollections
      [] op = "Update" -> c \in {ACCOUNTS, ORDERS, POSITIONS}
      [] op = "Delete" ->
            IF c = INDEX THEN n \in TableRemovableNames
            ELSE c \in {ACTORS, STRATEGIES}
      [] op = "Read" ->
            IF c = INDEX THEN n \in TableSetNames \cup TableHashNames
            ELSE c \in TableCollections \ {SNAPSHOTS, HEALTH}
      [] OTHER -> FALSE

\* a pair of the table that the table marks as not supported
UnsupportedPair(op, key) ==
    /\ HasDelimiter(key)
    /\ CollectionOf(key) \in TableCollections
    /\ CollectionOf(key) = INDEX =>
          IndexNameOf(key) \in TableSetNames \cup TableHashNames
    /\ ~TableSupports(op, key)

\* the payload a supported command must carry
PayloadFits(op, key, payload) ==
    LET c == CollectionOf(key) n == IndexNameOf(key) IN
    IF c = INDEX
    THEN /\ payload.some
         /\ Len(payload.segs) = (IF n \in TableHashNames THEN 2 ELSE 1)
    ELSE op = "Delete" \/ (payload.some /\ Len(payload.segs) >= 1)

WellFormed(c) ==
    /\ HasDelimiter(c.key)
    /\ TableSupports(c.op_type, c.key)
    /\ PayloadFits(c.op_type, c.key, c.payload)

\* ------------------------------------------------------ history operators
Range(f) == {f[i] : i \in DOMAIN f}

StrictlyIncreasing(q) == \A i, j \in 1..Len(q) : i < j => q[i] < q[j]

\* the command the i-th insert/update/delete call built
CmdOfCall(i) ==
    DatabaseCommand_new(i, calls[i].op_type, calls[i].key, calls[i].payload)

\* the ids put in a pipeline, over all drains in the order of the drains
AllDrainIds == Flatten([i \in 1..Len(drains) |-> drains[i].ids])

\* the ids of the commands in batches the store executed
ExecutedIds == UNION {Range(drains[i].ids) : i \in {j \in 1..Len(drains) : drains[j].ok}}

\* the ids in any pipeline, executed or not
BatchedIds == UNION {Range(drains[i].ids) : i \in 1..Len(drains)}

\* the store commands of the executed batches, batch after batch
ExecutedPipes ==
    Flatten([i \in 1..Len(drains) |-> IF drains[i].ok THEN drains[i].pipe ELSE <<>>])

\* the store commands of the executed commands, in the order of the calls
SendOrderPipe ==
    Flatten([i \in 1..Len(calls) |->
        IF i \in ExecutedIds THEN DrainOne(trader_key, CmdOfCall(i)).ops ELSE <<>>])

\* the drain (its position in `drains`) that took command id, 0 if none yet
DrainOf(id) ==
    IF \E i \in 1..Len(drains) : id \in Range(drains[i].taken)
    THEN CHOOSE i \in 1..Len(drains) : id \in Range(drains[i].taken)
    ELSE 0

\* the command at which drain d panicked, 0 if it did not panic
PanicAt(d) ==
    IF drains[d].panic
    THEN drains[d].taken[Len(drains[d].ids) + Len(drains[d].skipped) + 1]
    ELSE 0

\* a command that must carry a payload and carries none or an empty one
LacksPayload(c) ==
    /\ HasDelimiter(c.key)
    /\ \/ c.op_type \in {"Insert", "Update"}
       \/ c.op_type = "Delete" /\ CollectionOf(c.key) = INDEX
    /\ ~c.payload.some \/ c.payload.segs = <<>>

\* an index command of a supported pair whose payload has a number of
\* segments other than the one its structure takes
WrongArity(c) ==
    /\ HasDelimiter(c.key)
    /\ CollectionOf(c.key) = INDEX
    /\ c.op_type \in {"Insert", "Delete"}
    /\ TableSupports(c.op_type, c.key)
    /\ c.payload.some
    /\ ~PayloadFits(c.op_type, c.key, c.payload)

\* the members of the set stored under the logical key, {} if there is none
Members(st, key) ==
    IF Has(st, PhysicalKey(trader_key, key)) /\ st[PhysicalKey(trader_key, key)].t = "set"
    THEN st[PhysicalKey(trader_key, key)].m
    ELSE {}

\* the logical keys of the base sets and of the sets with a removal path
BaseSetKeys == {<<"index", ":", n[1]>> : n \in TableSetNames \ TableRemovableNames}
RemovableSetKeys == {<<"index", ":", n[1]>> : n \in TableRemovableNames}

\* a step in which a batch was executed by the store
ExecutedDrainStep ==
    /\ Len(drains') = Len(drains) + 1
    /\ Last(drains').ok

\* the members a membership set should hold after the first n calls: every
\* member inserted and not removed since
RECURSIVE MembersAfter(_, _)
MembersAfter(key, n) ==
    IF n = 0 THEN {}
    ELSE LET c == calls[n] prev == MembersAfter(key, n - 1) IN
         IF c.key # key \/ ~c.payload.some \/ Len(c.payload.segs) # 1 THEN prev
         ELSE IF c.op_type = "Insert" THEN prev \cup {c.payload.segs[1]}
         ELSE IF c.op_type = "Delete" /\ key \in RemovableSetKeys
         THEN prev \ {c.payload.segs[1]}
         ELSE prev

\* every command sent so far has been taken by a drain whose batch the
\* store executed
AllExecuted ==
    \A i \in 1..Len(calls) :
        /\ calls[i].res = "Ok"
        /\ DrainOf(i) # 0
        /\ drains[DrainOf(i)].ok

\* the store commands of the executed batches among the first n drains
PipesUpTo(n) ==
    Flatten([i \in 1..n |-> IF drains[i].ok THEN drains[i].pipe ELSE <<>>])

\* call i removes from a set with a removal path a member that no earlier
\* call inserted
DeletesAbsentMember(i) ==
    /\ calls[i].op_type = "Delete"
    /\ calls[i].key \in RemovableSetKeys
    /\ calls[i].payload.some
    /\ Len(calls[i].payload.segs) = 1
    /\ \A j \in 1..(i - 1) :
          ~(/\ calls[j].op_type = "Insert"
            /\ calls[j].key = calls[i].key
            /\ calls[j].payload = calls[i].payload)

\* -------------------------------------------------------------- claims
\* C1: commands sent through one facade are applied in the order they were
\* sent: over all drains the commands put in the pipelines appear in send
\* order (inside a batch and from batch to batch), and the store is what
\* applying the executed commands one after the other in send order gives.
C1_SendOrder ==
    /\ StrictlyIncreasing(AllDrainIds)
    /\ store = ApplyAll(EmptyStore, SendOrderPipe)

\* C1 witness: two executed batches, one of them with two commands
C1_Witness ==
    \E i, j \in 1..Len(drains) :
        /\ i < j
        /\ drains[i].ok /\ drains[j].ok
        /\ Len(drains[i].ids) + Len(drains[j].ids) >= 3

\* C3: once a close() has returned, every later insert, update or delete
\* fails with the channel error, and the command it built reaches neither
\* the channel, the buffer nor any drain.
C3_SendAfterClose ==
    \A i \in 1..Len(calls) :
        (\E c \in 1..Len(closes) : closes[c].ncalls < i) =>
            /\ calls[i].res = "ChannelError"
            /\ \A k \in 1..Len(chan) : chan[k].id # i
            /\ \A k \in 1..Len(buffer) : buffer[k].id # i
            /\ DrainOf(i) = 0

\* C3 witness: a call made after a successful close(), with the store
\* holding what was drained before
C3_Witness ==
    /\ Len(closes) >= 1
    /\ closes[1].res = "Ok"
    /\ Len(calls) > closes[1].ncalls
    /\ ExecutedIds # {}

\* C6 (as claimed): two commands the worker receives less than one buffer
\* interval apart are executed in the same batch.
C6_SameBatchWithinInterval ==
    \A k \in 1..(Len(recvd) - 1) :
        (/\ recvd[k + 1].near
         /\ recvd[k].id \in ExecutedIds
         /\ recvd[k + 1].id \in ExecutedIds)
        => DrainOf(recvd[k].id) = DrainOf(recvd[k + 1].id)

\* C6 (amended): the commands the worker receives between two consecutive
\* drains are all taken by the next drain, and those of them that are valid
\* make up its one pipeline; which commands share a batch is decided by the
\* drains between their receipts, not by the time between them.
C6_SameEpochSameBatch ==
    \A k \in 1..Len(recvd) :
        Len(drains) > recvd[k].epoch =>
            /\ recvd[k].id \in Range(drains[recvd[k].epoch + 1].taken)
            /\ ~drains[recvd[k].epoch + 1].panic =>
                  Range(drains[recvd[k].epoch + 1].taken)
                      = Range(drains[recvd[k].epoch + 1].ids)
                            \cup Range(drains[recvd[k].epoch + 1].skipped)

\* C6 witness: two commands received between the same two drains and
\* executed by one batch
C6_Witness ==
    \E j, k \in 1..Len(recvd) :
        /\ j < k
        /\ recvd[j].epoch = recvd[k].epoch
        /\ Len(drains) > recvd[k].epoch
        /\ drains[recvd[k].epoch + 1].ok
        /\ {recvd[j].id, recvd[k].id} \subseteq Range(drains[recvd[k].epoch + 1].ids)

\* C7: batch atomicity.  The store holds exactly the effect of the batches
\* whose execution succeeded, in order: a batch the store rejected has left
\* no trace of any of its commands, and the earlier batches stay applied.
C7_BatchAtomicity == store = ApplyAll(EmptyStore, ExecutedPipes)

\* C7 witness: a batch of two commands fails after an earlier batch succeeded
C7_Witness ==
    \E i, j \in 1..Len(drains) :
        /\ i < j
        /\ drains[i].ok /\ drains[i].pipe # <<>>
        /\ ~drains[j].ok /\ ~drains[j].panic /\ Len(drains[j].pipe) >= 2
        /\ store # EmptyStore

\* a step in which a batch was sent to the store and its execution failed
FailedDrainStep ==
    /\ Len(drains') = Len(drains) + 1
    /\ ~Last(drains').ok
    /\ ~Last(drains').panic

\* no command of a failed batch is taken by a later drain or is back in the
\* buffer
NoResend ==
    \A i \in 1..Len(drains) :
        ~drains[i].ok =>
            /\ \A j \in (i + 1)..Len(drains) :
                  Range(drains[i].taken) \cap Range(drains[j].taken) = {}
            /\ \A k \in 1..Len(buffer) : buffer[k].id \notin Range(drains[i].taken)

\* C9: a batch whose execution fails at the store is discarded and never
\* resent: none of its commands is in a later batch or back in the buffer,
\* the buffer is empty when the failed drain returns, and the failure does
\* not stop the worker (after a periodic drain it is Running again).
C9_FailedBatchDiscarded ==
    /\ []NoResend
    /\ [][FailedDrainStep =>
            /\ buffer' = <<>>
            /\ (~Last(drains').final => wstate' = "Running")
            /\ (Last(drains').final => wstate' = "Closed")]_vars

\* C9 witness: a periodic drain failed, the worker went on and a later batch
\* was executed
C9_Witness ==
    \E i, j \in 1..Len(drains) :
        /\ i < j
        /\ ~drains[i].ok /\ ~drains[i].panic /\ ~drains[i].final
        /\ drains[j].ok /\ drains[j].ids # <<>>

\* C2 (as claimed): a graceful close loses nothing: when close() has
\* returned successfully, every well-formed command sent before it is in a
\* batch that was executed.
C2_CloseLosesNothing ==
    \A c \in 1..Len(closes) :
        closes[c].res = "Ok" =>
            \A i \in 1..closes[c].ncalls :
                (calls[i].res = "Ok" /\ WellFormed(calls[i])) => i \in BatchedIds

C5_ReadReturnsInserted ==
    (/\ Len(calls) = 1
     /\ calls[1].op_type = "Insert"
     /\ WellFormed(calls[1])
     /\ TableSupports("Read", calls[1].key)
     /\ DrainOf(1) # 0
     /\ drains[DrainOf(1)].ok)
    => read(trader_key, Connected(store), calls[1].key) = {Ok(calls[1].payload.segs)}

\* C8 (as claimed): an invalid buffered command is skipped on its own: the
\* drain does not stop, every valid command of the same drain is in the
\* batch, every invalid one is skipped with an error.
C8_InvalidSkippedAlone ==
    \A d \in 1..Len(drains) :
        /\ ~drains[d].panic
        /\ \A k \in 1..Len(drains[d].taken) :
              IF WellFormed(calls[drains[d].taken[k]])
              THEN drains[d].taken[k] \in Range(drains[d].ids)
              ELSE drains[d].taken[k] \in Range(drains[d].skipped)

\* C10 (as claimed): calling an operation the table marks as unsupported
\* fails with an unsupported-operation error.
C10_UnsupportedCallFails ==
    \A i \in 1..Len(calls) :
        UnsupportedPair(calls[i].op_type, calls[i].key) =>
            calls[i].res = "UnsupportedOperation"

\* C10 (amended): an insert, update or delete of a pair the table marks as
\* unsupported is only queued: the call reports no unsupported-operation
\* error (it returns Ok, or the channel error once the worker is gone); the
\* drain that takes the command rejects it and puts nothing in the batch,
\* so it never mutates the store.  read of an unsupported collection fails
\* at once with the unsupported-operation error.
C10_UnsupportedNeverBatched ==
    /\ \A i \in 1..Len(calls) :
          UnsupportedPair(calls[i].op_type, calls[i].key) =>
              /\ calls[i].res \in {"Ok", "ChannelError"}
              /\ i \notin BatchedIds
              /\ (DrainOf(i) # 0 /\ ~drains[DrainOf(i)].panic) =>
                    i \in Range(drains[DrainOf(i)].skipped)
    /\ \A key \in {K_SNAPSHOT, K_HEALTH} :
          {r.err : r \in read(trader_key, Connected(store), key)} = {"UnsupportedOperation"}

\* C10 witness: an unsupported delete was skipped by a drain whose batch,
\* holding another command, was executed
C10_Witness ==
    \E d \in 1..Len(drains) :
        /\ drains[d].ok
        /\ drains[d].ids # <<>>
        /\ \E k \in 1..Len(drains[d].skipped) :
              /\ calls[drains[d].skipped[k]].op_type = "Delete"
              /\ UnsupportedPair("Delete", calls[drains[d].skipped[k]].key)

\* C11 (as claimed): an insert or update without payload or with an empty
\* payload, and a delete on an index key without payload or with an empty
\* payload, is rejected with an error by the drain that takes it: it puts
\* nothing in the batch and it does not end the worker.
C11_MissingPayloadRejected ==
    \A d \in 1..Len(drains) :
        \A k \in 1..Len(drains[d].taken) :
            LacksPayload(calls[drains[d].taken[k]]) =>
                /\ drains[d].taken[k] \notin Range(drains[d].ids)
                /\ PanicAt(d) # drains[d].taken[k]
                /\ ~drains[d].panic => drains[d].taken[k] \in Range(drains[d].skipped)

\* C12 (as claimed): payload arity is enforced for index commands: an insert
\* or removal on a membership set with a number of segments other than one,
\* and an insert on a mapping hash with a number other than two, is rejected
\* as an error by the drain that takes it and puts nothing in the batch.
C12_ArityEnforced ==
    \A d \in 1..Len(drains) :
        \A k \in 1..Len(drains[d].taken) :
            WrongArity(calls[drains[d].taken[k]]) =>
                /\ drains[d].taken[k] \notin Range(drains[d].ids)
                /\ drains[d].taken[k] \in Range(drains[d].skipped)

\* C13 (as claimed): index names are resolved on the logical key, so an
\* index command a drain has taken, and a read of its key, is accepted or
\* rejected the same way under each of the four trader-key configurations
\* (with or without the `trader-` prefix, with or without the instance id).
C13_SameUnderAllConfigs ==
    \A p \in {"true", "false"}, u \in {"true", "false"} :
        LET other == get_trader_key(TraderId, InstanceId,
                        [use_trader_prefix |-> p, use_instance_id |-> u,
                         buffer_interval |-> MaxInterval])
        IN  \A i \in 1..Len(calls) :
                (DrainOf(i) # 0 /\ CollectionOf(calls[i].key) = INDEX) =>
                    /\ DrainOne(trader_key, CmdOfCall(i)).st
                          = DrainOne(other, CmdOfCall(i)).st
                    /\ {r.ok : r \in read(trader_key, Connected(store), calls[i].key)}
                          = {r.ok : r \in read(other, Connected(store), calls[i].key)}

\* C14: key resolution.  For a key without delimiter both functions fail
\* with the key-format error; for a key with a delimiter the collection is
\* the part before the first delimiter (it holds no delimiter and a
\* delimiter follows it) and the index name is all that follows that
\* delimiter, later delimiters included; resolving again gives the same.
C14_KeyResolution ==
    LET key == probe_key
        plain == DELIMITER \notin Range(key)
    IN  /\ \A k \in 1..Len(probe_res.collection) :
              LET r == probe_res.collection[k] IN
              IF plain THEN r = Err("KeyFormatError")
              ELSE /\ r.ok
                   /\ DELIMITER \notin Range(r.val)
                   /\ Len(r.val) < Len(key)
                   /\ SubSeq(key, 1, Len(r.val) + 1) = r.val \o <<DELIMITER>>
        /\ \A k \in 1..Len(probe_res.index) :
              LET r == probe_res.index[k] IN
              IF plain THEN r = Err("KeyFormatError")
              ELSE /\ r.ok
                   /\ Len(r.val) < Len(key)
                   /\ DELIMITER \notin Range(SubSeq(key, 1, Len(key) - Len(r.val) - 1))
                   /\ SubSeq(key, Len(key) - Len(r.val), Len(key)) = <<DELIMITER>> \o r.val
        /\ \A j, k \in 1..Len(probe_res.collection) :
              probe_res.collection[j] = probe_res.collection[k]
        /\ \A j, k \in 1..Len(probe_res.index) :
              probe_res.index[j] = probe_res.index[k]

\* C14 witness: a key with two delimiters resolved twice by both functions,
\* the second delimiter inside the index name
C14_Witness ==
    /\ Len(probe_res.collection) = 2
    /\ Len(probe_res.index) = 2
    /\ probe_res.collection[1] = Ok(<<"index">>)
    /\ probe_res.index[1] = Ok(<<"x", DELIMITER>>)

\* C15: trader-key construction.  The key is the trader id, preceded by
\* `trader-` exactly when use_trader_prefix is the boolean true and followed
\* by `:` and the instance id exactly when use_instance_id is the boolean
\* true: `trader-T-1:abc` with both, `T-1` with neither (false, absent or
\* not a boolean).
C15_TraderKey ==
    trader_key =
        IF config.use_trader_prefix = "true"
        THEN IF config.use_instance_id = "true"
             THEN <<"trader-", "T-1", ":", "abc">>
             ELSE <<"trader-", "T-1">>
        ELSE IF config.use_instance_id = "true"
             THEN <<"T-1", ":", "abc">>
             ELSE <<"T-1">>

\* C15 witness: both options true, and a key resolved under that trader key
C15_Witness ==
    /\ config.use_trader_prefix = "true"
    /\ config.use_instance_id = "true"
    /\ trader_key = <<"trader-", "T-1", ":", "abc">>
    /\ probe_res.collection # <<>>

\* C16: the base membership sets are append-only.  No step removes a member
\* from index:order_ids, index:orders or index:positions; a delete on one of
\* these keys is never put in a batch (the drain rejects it); and when a
\* batch is executed, the member named by a delete on a set with a removal
\* path is gone from that set unless the same batch inserts it again later.
C16_BaseSetsAppendOnly ==
    /\ [][\A key \in BaseSetKeys : Members(store, key) \subseteq Members(store', key)]_vars
    /\ [](\A i \in 1..Len(calls) :
             (calls[i].op_type = "Delete" /\ calls[i].key \in BaseSetKeys) =>
                 /\ i \notin BatchedIds
                 /\ DrainOf(i) # 0 => i \in Range(drains[DrainOf(i)].skipped))
    /\ [][ExecutedDrainStep =>
            \A k \in 1..Len(Last(drains').taken) :
                LET c == calls[Last(drains').taken[k]] IN
                (/\ c.op_type = "Delete"
                 /\ c.key \in RemovableSetKeys
                 /\ c.payload.some /\ Len(c.payload.segs) = 1
                 /\ \A j \in (k + 1)..Len(Last(drains').taken) :
                       ~(/\ calls[Last(drains').taken[j]].op_type = "Insert"
                         /\ calls[Last(drains').taken[j]].key = c.key))
                => c.payload.segs[1] \notin Members(store', c.key)]_vars

\* C16 witness: a member is in index:order_ids although a delete naming it
\* was sent after the insert and taken by a later drain whose batch was
\* executed
C16_Witness ==
    \E i, j \in 1..Len(calls) :
        /\ i < j
        /\ calls[i].op_type = "Insert" /\ calls[i].key = K_ORDER_IDS
        /\ calls[j].op_type = "Delete" /\ calls[j].key = K_ORDER_IDS
        /\ i \in ExecutedIds
        /\ DrainOf(j) # 0 /\ drains[DrainOf(j)].ok
        /\ calls[i].payload.segs[1] = calls[j].payload.segs[1]
        /\ calls[i].payload.segs[1] \in Members(store, K_ORDER_IDS)

\* C17 (as claimed): the mapping hashes are immutable once set: the value
\* the first executed insert gave to a field of index:order_position or
\* index:order_client is the value the store holds for that field ever
\* after, whatever is inserted, updated or deleted later.
C17_HashFieldsImmutable ==
    \A k \in 1..Len(ExecutedPipes) :
        LET c == ExecutedPipes[k] IN
        (/\ c.cmd = "HSET"
         /\ \A j \in 1..(k - 1) :
               ~(/\ ExecutedPipes[j].cmd = "HSET"
                 /\ ExecutedPipes[j].key = c.key
                 /\ ExecutedPipes[j].a = c.a))
        => /\ Has(store, c.key)
           /\ <<c.a, c.b>> \in store[c.key].h

\* C18 (as claimed): membership-set inserts behave as a set: once every
\* command sent has been drained and executed, read of a membership-set
\* index returns exactly the distinct members inserted and not removed, in
\* some order, each once.
C18_SetSemantics ==
    \A key \in {K_ORDER_IDS, K_ORDERS_OPEN} :
        (AllExecuted /\ \E i \in 1..Len(calls) : calls[i].key = key) =>
            read(trader_key, Connected(store), key)
                = {Ok(f) : f \in Orderings(MembersAfter(key, Len(calls)))}

\* C19 (as claimed): deleting a member that was never inserted from a set
\* with a removal path is a no-op that succeeds: the drain puts the delete
\* in the batch, and a batch made of that delete alone, once executed,
\* leaves the set and every other key as they were.
C19_DeleteAbsentIsNoOp ==
    \A d \in 1..Len(drains) :
        \A k \in 1..Len(drains[d].taken) :
            DeletesAbsentMember(drains[d].taken[k]) =>
                /\ drains[d].taken[k] \in Range(drains[d].ids)
                /\ (drains[d].ok /\ Len(drains[d].taken) = 1) =>
                      ApplyAll(EmptyStore, PipesUpTo(d))
                          = ApplyAll(EmptyStore, PipesUpTo(d - 1))

\* C20 (as claimed): read of a supported key under which the store holds
\* nothing returns the empty sequence and no error, for a scalar key, a list
\* key, a membership-set key and a mapping-hash key alike.
C20_ReadAbsentIsEmpty ==
    \A key \in {K_GENERAL, K_ORDER, K_ORDERS_OPEN, K_ORDER_POSITION} :
        ~Has(store, PhysicalKey(trader_key, key)) =>
            read(trader_key, Connected(store), key) = {Ok(<<>>)}

\* the patterns keys() is called with
KeyPatterns == {<<"*">>, <<"actors", DELIMITER, "*">>, <<"*", "A-1">>}

\* C21 (as claimed): namespace isolation of keys(): whatever the pattern,
\* keys() returns no physical key that a facade with another trader key
\* wrote, also when one trader key is the other one extended by the
\* instance id.
C21_KeysIsolation ==
    \A pattern \in KeyPatterns :
        keys(trader_key, store, pattern) \cap foreign = {}

\* a step in which flushdb() returned successfully
FlushOkStep ==
    /\ Len(fg') = Len(fg) + 1
    /\ Last(fg').op = "flushdb"
    /\ Last(fg').res.ok

\* C22: flushdb() is indiscriminate: when it returns successfully the
\* database holds no key at all, neither of the caller's trader namespace nor
\* of any other (and a flushdb() that fails removes nothing).
C22_FlushIndiscriminate ==
    [][/\ FlushOkStep => store' = EmptyStore
       /\ (Len(fg') = Len(fg) + 1 /\ Last(fg').op = "flushdb" /\ ~Last(fg').res.ok)
             => store' = store]_vars

\* C22 witness: a successful flushdb() has left the database empty after
\* this facade and another one had written to it
C22_Witness ==
    /\ fg # <<>>
    /\ Last(fg).op = "flushdb"
    /\ Last(fg).res.ok
    /\ store = EmptyStore
    /\ foreign # {}
    /\ ExecutedIds # {}

\* a step in which insert, update or delete returned
CallStep == Len(calls') = Len(calls) + 1

\* C23: a send fails only when the receiving end is gone.  While the worker
\* runs, insert, update and delete return success for every key and payload,
\* valid or not, whatever the store did to earlier batches; a call returns
\* an error, the channel error, only when the worker thread has ended or
\* panicked.
C23_SendFailsOnlyWhenGone ==
    [][CallStep =>
          /\ wstate = "Running" => Last(calls').res = "Ok"
          /\ Last(calls').res # "Ok" =>
                /\ Last(calls').res = "ChannelError"
                /\ wstate \in {"Closed", "Panicked"}]_vars

\* C23 witness: an unsupported command was accepted by the call, and a
\* call made after the worker panicked returned the channel error
C23_Witness ==
    \E i, j \in 1..Len(calls) :
        /\ i < j
        /\ calls[i].res = "Ok"
        /\ UnsupportedPair(calls[i].op_type, calls[i].key)
        /\ calls[j].res = "ChannelError"
        /\ wstate = "Panicked"

\* C24 (as claimed): construction fails synchronously: without the
\* `database` section new() returns an error and starts no worker, and a
\* new() that returned a facade has a worker that can write: the worker
\* thread never dies for want of its connection.
C24_NewFailsSynchronously ==
    fg # <<>> =>
        /\ config.database = "absent" =>
              /\ fg[1].res = Err("ConfigurationError")
              /\ wstate = "NotStarted"
        /\ fg[1].res.ok => wstate # "Panicked"
        /\ ~fg[1].res.ok => wstate = "NotStarted"

\* the collections the documentation lists as readable
ReadTable ==
    {INDEX, GENERAL, CURRENCIES, INSTRUMENTS, SYNTHETICS, ACCOUNTS, ORDERS,
     POSITIONS, ACTORS, STRATEGIES}

\* C25: a read fails with a key-format error exactly when the key has no
\* delimiter, and with an unsupported-operation error, naming `read` and the
\* collection, exactly when the key's collection is not one of the ten
\* readable ones; both errors are returned whether or not the server answers,
\* so the store was not queried.
C25_ReadTable ==
    \A i \in 1..Len(fg) :
        fg[i].op = "read" =>
            LET key == fg[i].key
                r == fg[i].res
            IN  /\ r = Err("KeyFormatError") <=> ~HasDelimiter(key)
                /\ r.err = "UnsupportedOperation"
                      <=> HasDelimiter(key) /\ CollectionOf(key) \notin ReadTable
                /\ r.err = "UnsupportedOperation"
                      => r.val = <<<<"read">>, CollectionOf(key)>>

\* C25 witness: a read of a health key was rejected as unsupported, a read of
\* an orders key was answered, and another failed because the server did not
\* answer
C25_Witness ==
    \E i, j, k \in 1..Len(fg) :
        /\ fg[i].op = "read" /\ fg[i].key = K_HEALTH
        /\ fg[i].res = UnsupportedRead(HEALTH)
        /\ fg[j].op = "read" /\ fg[j].key = K_ORDER /\ fg[j].res.ok
        /\ fg[k].op = "read" /\ fg[k].key = K_ORDER
        /\ fg[k].res = Err("StoreError")

\* the collections the documentation lists for update
UpdateTable == {ACCOUNTS, ORDERS, POSITIONS}

\* the store after the batch `ids`, every update in it appending its payload
\* to the list at its key when that list exists and doing nothing otherwise
RECURSIVE ClaimedUpdates(_, _)
ClaimedUpdates(st, ids) ==
    IF ids = <<>> THEN st
    ELSE LET c == calls[Head(ids)]
             pk == PhysicalKey(trader_key, c.key)
             next == IF c.op_type = "Update"
                     THEN IF Has(st, pk) /\ st[pk].t = "list"
                          THEN Put(st, pk, ListVal(st[pk].l \o c.payload.segs))
                          ELSE st
                     ELSE ApplyAll(st, DrainOne(trader_key, CmdOfCall(Head(ids))).ops)
         IN  ClaimedUpdates(next, Tail(ids))

\* C26 (as claimed): an update on an accounts, orders or positions key
\* appends the payload to the list when the list exists and leaves the store
\* without the key when it does not; an update on any other collection is
\* skipped as unsupported and never reaches a batch.
C26_UpdateAppendsIfExists ==
    [][(Len(drains') = Len(drains) + 1 /\ ~Last(drains').panic) =>
          /\ \A i \in Range(Last(drains').taken) :
                (/\ calls[i].op_type = "Update"
                 /\ HasDelimiter(calls[i].key)
                 /\ CollectionOf(calls[i].key) \notin UpdateTable)
                => /\ i \in Range(Last(drains').skipped)
                   /\ i \notin Range(Last(drains').ids)
          /\ \A i \in Range(Last(drains').ids) :
                calls[i].op_type = "Update"
                => CollectionOf(calls[i].key) \in UpdateTable
          /\ Last(drains').ok
                => store' = ClaimedUpdates(store, Last(drains').ids)]_vars

\* the scalar and the list collections of the documentation
ScalarTable ==
    {GENERAL, CURRENCIES, INSTRUMENTS, SYNTHETICS, ACTORS, STRATEGIES, HEALTH}
ListTable == {ACCOUNTS, ORDERS, POSITIONS, SNAPSHOTS}

\* the calls on `key`, in the order they were made
CallsOn(key) == {i \in 1..Len(calls) : calls[i].key = key}

\* every call on `key` is an insert with a payload, executed by the store
OnlyExecutedInserts(key) ==
    \A i \in CallsOn(key) :
        /\ calls[i].op_type = "Insert"
        /\ calls[i].payload.some
        /\ calls[i].payload.segs # <<>>
        /\ i \in ExecutedIds

\* what the value at `key` holds, as the segments a read of it returns
StoredSegs(key) ==
    LET pk == PhysicalKey(trader_key, key) IN
    IF ~Has(store, pk) THEN <<>>
    ELSE IF store[pk].t = "string" THEN <<store[pk].s>>
    ELSE IF store[pk].t = "list" THEN store[pk].l
    ELSE <<>>

\* the segments the inserts on `key` should have left: the latest payload
\* on a scalar collection, all payloads in order on a list collection
ClaimedSegs(key) ==
    LET on == CallsOn(key)
        latest == CHOOSE i \in on : \A j \in on : j <= i
    IN  IF CollectionOf(key) \in ScalarTable
        THEN calls[latest].payload.segs
        ELSE Flatten([i \in 1..Len(calls) |->
                        IF i \in on THEN calls[i].payload.segs ELSE <<>>])

\* C27 (as claimed): on a scalar collection the value is the payload of the
\* latest insert, on a list collection the payloads of all inserts in
\* order, and that is what read returns where read is supported; an insert
\* on an unknown collection is skipped and stores nothing.
C27_InsertEncoding ==
    \A i \in 1..Len(calls) :
        LET key == calls[i].key
            c == CollectionOf(key)
        IN  /\ (c \in ScalarTable \cup ListTable /\ OnlyExecutedInserts(key))
                => /\ StoredSegs(key) = ClaimedSegs(key)
                   /\ c \in ReadTable =>
                         read(trader_key, Connected(store), key)
                            = {Ok(ClaimedSegs(key))}
            /\ (/\ calls[i].op_type = "Insert"
                /\ c \notin ScalarTable \cup ListTable \cup {INDEX}
                /\ DrainOf(i) # 0)
                => /\ i \in Range(drains[DrainOf(i)].skipped)
                   /\ i \notin BatchedIds
                   /\ ~Has(store, PhysicalKey(trader_key, key))

\* C28: for every bar type, from_str of its Display text gives back the
\* same bar type, hyphens in the symbol included: the text is split from
\* the right into five pieces and the instrument id is the unsplit rest.
C28_BarTypeRoundTrip ==
    (bar_type # <<>> /\ bar_parsed # <<>>) => bar_parsed = Ok(bar_type)

\* C28 witness: a bar type whose symbol holds a hyphen, with a step of two
\* digits, was formatted and parsed back
C28_Witness ==
    /\ bar_type # <<>>
    /\ bar_parsed # <<>>
    /\ bar_parsed.ok
    /\ \E i \in 1..Len(bar_type.instrument_id.symbol) :
          bar_type.instrument_id.symbol[i] = HYPHEN
    /\ bar_type.spec.step >= 10
    /\ Len(rsplitn(5, bar_text)) = 5

\* a step in which the worker drained / drained periodically
DrainStep == Len(drains') = Len(drains) + 1
PeriodicDrainStep == DrainStep /\ ~Last(drains').final

\* C29: a periodic drain is taken only with a non-empty buffer and at least
\* one buffer interval after the previous periodic drain (or the start of
\* the worker), and it restarts the timer; no drain, periodic or final,
\* takes an empty buffer.
C29_PeriodicDrain ==
    [][/\ PeriodicDrainStep =>
             /\ buffer # <<>>
             /\ elapsed >= BufferInterval
             /\ elapsed' = 0
       /\ DrainStep =>
             /\ buffer # <<>>
             /\ Last(drains').taken # <<>>
       /\ ~PeriodicDrainStep => elapsed' >= elapsed]_vars

\* C29 witness: with a buffer interval of one tick, two periodic drains
\* were taken one after the other
C29_Witness ==
    /\ BufferInterval >= 1
    /\ Len(drains) >= 2
    /\ ~drains[1].final
    /\ ~drains[2].final

\* C30 (as claimed): the worker is Running, in its final drain or Closed; it
\* leaves Running only on receiving a Close command or on finding the
\* channel disconnected, and then only for its final drain; Closed is
\* absorbing, and once the worker is Closed no batch is executed.
C30_WorkerLifecycle ==
    [][/\ wstate' \in {"Running", "Final", "Closed"}
       /\ (wstate = "Running" /\ wstate' # "Running") =>
             /\ wstate' = "Final"
             /\ \/ chan # <<>> /\ Head(chan).op_type = "Close"
                \/ chan = <<>> /\ ~tx_alive
       /\ wstate = "Final" => wstate' \in {"Final", "Closed"}
       /\ wstate = "Closed" =>
             /\ wstate' = "Closed"
             /\ drains' = drains
             /\ store' = store]_vars

\* C31: the buffer only ever holds Insert, Update and Delete commands that
\* carry a key, and a worker that has observed Close (or a disconnection)
\* receives nothing more: its buffer only shrinks, by the final drain.
C31_CloseNeverBuffered ==
    [][/\ \A i \in 1..Len(buffer') :
             /\ buffer'[i].op_type \in {"Insert", "Update", "Delete"}
             /\ buffer'[i].key.some
       /\ wstate \in {"Final", "Closed"} =>
             /\ recvd' = recvd
             /\ buffer' \in {buffer, <<>>}]_vars

\* C31 witness: the worker observed Close while its buffer held a command
C31_Witness ==
    /\ wstate = "Final"
    /\ buffer # <<>>
    /\ fpc = "joining"

\* the facade was dropped and close() was never called
DroppedUnclosed == ~tx_alive /\ closes = <<>> /\ fpc = "idle"

\* the ids the worker has received / that a drain has handled (put in its
\* batch or skipped with an error)
ReceivedIds == {recvd[j].id : j \in 1..Len(recvd)}
HandledIds ==
    UNION {Range(drains[d].ids) \cup Range(drains[d].skipped) : d \in 1..Len(drains)}

\* C32 (as claimed): after the facade is dropped without close() the worker
\* ends normally: it goes to its final drain only when the channel is empty
\* and every command sent has been received, it makes at most one final
\* drain, and when it has ended every command sent has been handled by a
\* drain.
C32_DisconnectDrainsAll ==
    DroppedUnclosed =>
        /\ wstate # "Panicked"
        /\ wstate \in {"Final", "Closed"} =>
              /\ chan = <<>>
              /\ \A i \in 1..Len(calls) : i \in ReceivedIds
        /\ Cardinality({d \in 1..Len(drains) : drains[d].final}) <= 1
        /\ wstate = "Closed" =>
              /\ buffer = <<>>
              /\ \A i \in 1..Len(calls) : i \in HandledIds

\* C33 (as claimed): every drain empties the buffer, whether its batch was
\* executed or not; each command it takes is handled by it, put in its batch
\* or skipped with an error, and was taken by no earlier drain.
C33_ConsumedExactlyOnce ==
    [][DrainStep =>
          LET d == Last(drains') IN
          /\ buffer' = <<>>
          /\ d.taken = IdsOf(buffer)
          /\ \A j, k \in 1..Len(d.taken) : d.taken[j] = d.taken[k] => j = k
          /\ \A i \in Range(d.taken) :
                /\ \A e \in 1..Len(drains) : i \notin Range(drains[e].taken)
                /\ (i \in Range(d.ids)) # (i \in Range(d.skipped))]_vars

\* the ids a drain has taken out of the buffer
TakenIds == UNION {Range(drains[d].taken) : d \in 1..Len(drains)}

\* C34: a command the worker has received is eventually taken by a drain
\* while the worker runs, whatever else arrives; when a drain is due the
\* worker drains before it receives again, and an empty channel does not
\* hold the drain back.
C34_Responsive ==
    /\ (wstate = "Running" /\ ~(ReceivedIds \subseteq TakenIds))
          ~> (ReceivedIds \subseteq TakenIds \/ wstate # "Running")
    /\ [][(wstate = "Running" /\ DrainDue) =>
              /\ recvd' = recvd
              /\ wstate' \in {"Running", "Panicked"}]_vars

\* C34 witness: with a buffer interval of one tick, a periodic drain was
\* taken while a command was waiting in the channel
C34_Witness ==
    /\ BufferInterval >= 1
    /\ wstate = "Running"
    /\ Len(drains) >= 1
    /\ ~drains[1].final
    /\ Len(chan) >= 1
    /\ \E k \in 1..Len(recvd) : recvd[k].epoch = 0

\* a step in which a close() call returns
CloseReturnStep == Len(closes') = Len(closes) + 1

\* C35 (as claimed): a close() made while the worker handle is held returns
\* only when the worker thread has ended, with success if the worker ended
\* normally and with the error of the join if it panicked, whether the
\* panic came before or after the call.
C35_CloseJoinsWorker ==
    [][(CloseReturnStep /\ (handle \/ fpc = "joining")) =>
          /\ wstate' \in {"Closed", "Panicked"}
          /\ wstate' = "Closed" => Last(closes').res = "Ok"
          /\ wstate' = "Panicked" => Last(closes').res = "JoinError"
          /\ ~handle']_vars

\* C36: between two calls on a facade whose worker handle has been taken,
\* the receiver is gone and the worker thread has ended; so every call made
\* after a close() that took the handle fails at its send, and no close()
\* ever returns the error of the missing handle.
C36_NoHandleNoReceiver ==
    /\ (fpc = "idle" /\ tx_alive /\ ~handle) =>
          /\ ~rx_alive
          /\ wstate \in {"Closed", "Panicked"}
    /\ \A c \in 1..Len(closes) :
          /\ closes[c].res # "AlreadyShutdown"
          /\ closes[c].res \in {"Ok", "JoinError"} =>
                /\ \A i \in (closes[c].ncalls + 1)..Len(calls) :
                      calls[i].res = "ChannelError"
                /\ \A d \in (c + 1)..Len(closes) : closes[d].res = "SendError"

\* C36 witness: after a close() that joined the worker, an insert and a
\* second close() both failed at the send
C36_Witness ==
    /\ ~handle /\ tx_alive /\ fpc = "idle"
    /\ Len(closes) = 2
    /\ closes[1].res \in {"Ok", "JoinError"}
    /\ closes[2].res = "SendError"
    /\ \E i \in 1..Len(calls) : i > closes[1].ncalls /\ calls[i].res = "ChannelError"

\* a step in which flushdb() returned, successfully or not
FlushStep == Len(fg') = Len(fg) + 1 /\ Last(fg').op = "flushdb"

\* the number of drains taken before the last successful flushdb()
DrainsBeforeLastFlush ==
    LET oks == {f \in 1..Len(fg) : fg[f].op = "flushdb" /\ fg[f].res.ok}
    IN  IF oks = {} THEN 0
        ELSE fg[CHOOSE f \in oks : \A g \in oks : g <= f].ndrains

\* the store commands of the batches executed after the last successful flush
PipesSinceFlush ==
    Flatten([d \in 1..Len(drains) |->
        IF d > DrainsBeforeLastFlush /\ drains[d].ok THEN drains[d].pipe ELSE <<>>])

\* what this facade's worker has put in the database
OwnPart(st) == [k \in (DOMAIN st) \ foreign |-> st[k]]

\* C37: flushdb() leaves the channel, the buffer and the worker as they
\* are, and this facade's part of the store is exactly the effect of the
\* batches executed after the last successful flush: a command sent before
\* the flush and drained after it is applied.
C37_FlushKeepsPending ==
    /\ [][FlushStep =>
             /\ chan' = chan
             /\ buffer' = buffer
             /\ wstate' = wstate
             /\ rx_alive' = rx_alive]_vars
    /\ [](OwnPart(store) = ApplyAll(EmptyStore, PipesSinceFlush))

\* C37 witness: a command sent before a successful flushdb() was drained
\* after it, no call was made since, and its key is in the store
C37_Witness ==
    \E f \in 1..Len(fg) :
        /\ fg[f].op = "flushdb"
        /\ fg[f].res.ok
        /\ fg[f].ncalls = Len(calls)
        /\ \E i \in 1..Len(calls) :
              /\ DrainOf(i) > fg[f].ndrains
              /\ drains[DrainOf(i)].ok
              /\ Has(store, PhysicalKey(trader_key, calls[i].key))

\* -------------------------------------------------------- socket framing
\* The frames of a byte stream, read off the stream as a whole: a frame ends
\* with the first suffix that its bytes complete; `rest` is what follows the
\* last suffix.
EndsWith(b, sfx) ==
    Len(b) >= Len(sfx) /\ SubSeq(b, Len(b) - Len(sfx) + 1, Len(b)) = sfx

RECURSIVE SplitFrom(_, _, _, _)
SplitFrom(stream, sfx, cur, frames) ==
    IF stream = <<>> THEN [frames |-> frames, rest |-> cur]
    ELSE LET c == Append(cur, Head(stream)) IN
         IF EndsWith(c, sfx)
            THEN SplitFrom(Tail(stream), sfx, <<>>,
                           Append(frames, SubSeq(c, 1, Len(c) - Len(sfx))))
            ELSE SplitFrom(Tail(stream), sfx, c, frames)

Split(stream, sfx) == SplitFrom(stream, sfx, <<>>, <<>>)

\* C38: whatever the peer sent and however the reads cut it, the handler
\* calls so far followed by the frames still in buf are exactly the
\* suffix-terminated frames of the bytes read, in stream order and without
\* the suffix; the bytes after the last suffix are still in buf; and each
\* time the task goes back to reading every complete frame has been
\* delivered, so that buf holds only the incomplete one.
C38_Framing ==
    read_task # "none" =>
        LET all == Split(read_hist, suffix)
            kept == Split(sbuf, suffix)
        IN  /\ handler_calls \o kept.frames = all.frames
            /\ kept.rest = all.rest
            /\ read_task \in {"lock", "read_buf"} =>
                   /\ handler_calls = all.frames
                   /\ sbuf = all.rest

\* two frames were delivered from reads that left an incomplete frame behind,
\* and the task is back at the top of its loop
C38_Witness ==
    /\ read_task = "lock"
    /\ Len(handler_calls) >= 2
    /\ sbuf # <<>>
    /\ Len(read_hist) = MaxStream

\* ------------------------------------------------------- socket send
\* a send is waiting for the stream lock on a socket that is still open
SendWaiting == cpc = "send" /\ ~shut

\* the read task holds the stream lock and waits for bytes that have not come
ReaderWaitsWithLock ==
    /\ inner = "read_task"
    /\ read_task = "read_buf"
    /\ wire = <<>>
    /\ ~peer_closed

\* C39: a send on an open socket is never kept waiting by the read task: the
\* task does not hold the stream lock while it waits for bytes the peer has
\* not sent, so the send can take the lock and write data plus suffix
\* without any help from the peer.
C39_SendCompletes == SendWaiting => ~ReaderWaitsWithLock

\* ---------------------------------------------------- socket shutdown
\* shutdown() / close() has returned
ShutdownReturned == shut

\* C40: once shutdown() or close() has returned the handler is not called
\* again; is_alive() is true exactly while the read task has not finished;
\* and a read that returns 0 bytes ends the task, which ends with Ok in no
\* other way.
C40_ShutdownStopsDelivery ==
    /\ [][ShutdownReturned => handler_calls' = handler_calls]_vars
    /\ [](read_task # "none" => (is_alive <=> read_task \in Running))
    /\ [][(read_task = "read_buf" /\ wire = <<>> /\ peer_closed /\ ~aborted
           /\ read_task' \notin {"read_buf", "Err"}) => read_task' = "Ok"]_vars
    /\ [][(read_task # "Ok" /\ read_task' = "Ok")
            => (read_task = "read_buf" /\ wire = <<>> /\ peer_closed)]_vars

====
